---- MODULE Spec2Model ----
(***************************************************************************)
(* Clinic duty-roster scheduler: calendar builder, variable fabric,        *)
(* constraint assemblers and the feasibility search controller of          *)
(* engine.py (create_im_schedule, create_peds_schedule,                     *)
(* create_fp_schedule).                                                     *)
(*                                                                         *)
(* Dates are day numbers; day 0 is a Monday, so that Python's              *)
(* date.weekday() is d % 7 and timedelta(days=n) is integer addition.      *)
(* The CP-SAT solver is an external service: Solve returns OPTIMAL or      *)
(* FEASIBLE only together with an assignment that satisfies every          *)
(* constraint of the model, INFEASIBLE only when no such assignment        *)
(* exists, and may return UNKNOWN (time budget) on any model.              *)
(***************************************************************************)
EXTENDS Integers, Sequences, FiniteSets, TLC

\* ------------------------------------------------------------------------
\* Bounds of the model
\* ------------------------------------------------------------------------
MaxDay == 1
MaxInit == 2
MaxWall == 2

\* ------------------------------------------------------------------------
\* Python helpers
\* ------------------------------------------------------------------------
None == <<>>
Some(x) == <<x>>
EmptyDict == <<>>

\* dict.get(key, default)
Get(d, k, default) == IF k \in DOMAIN d THEN d[k] ELSE default

\* a dict without one key (a YAML document in which the key is absent)
Without(d, k) == [x \in (DOMAIN d) \ {k} |-> d[x]]

\* a dict with d[k] = v assigned
Assign(d, k, v) == [x \in (DOMAIN d) \cup {k} |-> IF x = k THEN v ELSE d[x]]

Max2(a, b) == IF a >= b THEN a ELSE b

RECURSIVE SumSeq(_)
SumSeq(s) == IF s = <<>> THEN 0 ELSE Head(s) + SumSeq(Tail(s))

SeqToSet(s) == {s[i] : i \in 1..Len(s)}

\* min(S), max(S), sum(f[x] for x in S)
RECURSIVE MinOf(_)
MinOf(S) == LET x == CHOOSE y \in S : TRUE
            IN IF S = {x} THEN x
               ELSE LET m == MinOf(S \ {x}) IN IF x <= m THEN x ELSE m

RECURSIVE SumOver(_, _)
SumOver(S, f) == IF S = {} THEN 0
                 ELSE LET x == CHOOSE y \in S : TRUE IN f[x] + SumOver(S \ {x}, f)

RECURSIVE MaxOf(_)
MaxOf(S) == LET x == CHOOSE y \in S : TRUE
            IN IF S = {x} THEN x
               ELSE LET m == MaxOf(S \ {x}) IN IF x >= m THEN x ELSE m

\* date.strftime('%A')
DayNames == <<"Monday", "Tuesday", "Wednesday", "Thursday", "Friday", "Saturday", "Sunday">>
Weekday(d) == d % 7
strftimeA(d) == DayNames[Weekday(d) + 1]

\* ------------------------------------------------------------------------
\* utils/calendar.py
\* A calendar (dict date -> list of sessions, in insertion order) is the
\* sequence of its items; a call either raises or returns a calendar.
\* ------------------------------------------------------------------------
Raise(e) == [exc |-> e, calendar |-> <<>>]
Return(cal) == [exc |-> "none", calendar |-> cal]

CalKeys(cal) == {cal[i].date : i \in 1..Len(cal)}
CalGet(cal, d) == (CHOOSE i \in 1..Len(cal) : cal[i].date = d)
CalSessions(cal, d) == cal[CalGet(cal, d)].sessions

\* if weekday in clinic_days and current not in holiday_dates: ... if sessions:
ClinicDateKeptOnHoliday(weekday, current, clinic_days, holiday_dates, sessions) ==
    weekday \in clinic_days /\ sessions # <<>>
ClinicDateKept(weekday, current, clinic_days, holiday_dates, sessions) ==
    weekday \in clinic_days /\ current \notin holiday_dates /\ sessions # <<>>

\* the while loop of generate_clinic_calendar, from `current` on
RECURSIVE ClinicLoop(_, _, _, _, _)
ClinicLoop(current, end, clinic_days, clinic_sessions, holiday_dates) ==
    IF current > end THEN <<>>
    ELSE LET weekday == strftimeA(current)
             sessions == Get(clinic_sessions, weekday, <<>>)
             item == IF ClinicDateKept(weekday, current, clinic_days, holiday_dates, sessions)
                     THEN <<[date |-> current, sessions |-> sessions]>>
                     ELSE <<>>
         IN item \o ClinicLoop(current + 1, end, clinic_days, clinic_sessions, holiday_dates)

RangeCheckStrict(start, end) == start >= end
RangeCheck(start, end) == start > end

generate_clinic_calendar(start, end, clinic_rules) ==
    IF RangeCheck(start, end) THEN Raise("ValueError")
    ELSE IF ~ ({"clinic_days", "clinic_sessions"} \subseteq DOMAIN clinic_rules)
         THEN Raise("KeyError")
    ELSE Return(ClinicLoop(start, end, clinic_rules["clinic_days"],
                           clinic_rules["clinic_sessions"],
                           Get(clinic_rules, "holiday_dates", {})))

\* the while loop of generate_pediatric_calendar, from `current` on
RECURSIVE PediatricLoop(_, _, _, _, _, _)
PediatricLoop(current, end, clinic_days, clinic_sessions, call_days, holiday_dates) ==
    IF current > end THEN <<>>
    ELSE LET weekday == strftimeA(current)
             clinic == IF weekday \in clinic_days
                       THEN Get(clinic_sessions, weekday, <<>>) ELSE <<>>
             sessions == IF weekday \in call_days THEN Append(clinic, "call") ELSE clinic
             item == IF current \notin holiday_dates /\ sessions # <<>>
                     THEN <<[date |-> current, sessions |-> sessions]>>
                     ELSE <<>>
         IN item \o PediatricLoop(current + 1, end, clinic_days, clinic_sessions,
                                  call_days, holiday_dates)

generate_pediatric_calendar(start, end, clinic_rules) ==
    IF RangeCheck(start, end) THEN Raise("ValueError")
    ELSE IF ~ ({"clinic_days", "clinic_sessions", "call_days"} \subseteq DOMAIN clinic_rules)
         THEN Raise("KeyError")
    ELSE Return(PediatricLoop(start, end, clinic_rules["clinic_days"],
                              clinic_rules["clinic_sessions"],
                              clinic_rules["call_days"],
                              Get(clinic_rules, "holiday_dates", {})))

\* ------------------------------------------------------------------------
\* Dates: day 0 is Monday 2024-12-23, so days 7..13 (2024-12-30 .. 2025-01-05)
\* are ISO week 1 of 2025.  Valid for the years 2024 and 2025.
\* ------------------------------------------------------------------------
Year(d) == IF d <= 8 THEN 2024 ELSE 2025
IsoWeek(d) == LET w == d \div 7 IN IF w <= 0 THEN 52 + w ELSE w

\* (date.year, date.isocalendar()[1])
get_week_key(d) == <<Year(d), IsoWeek(d)>>

\* ------------------------------------------------------------------------
\* The CP-SAT model: num_vars Boolean variables 1..num_vars and a set of
\* constraints.  Auxiliary variables that occur in one constraint group
\* only (shortfall integers, day-off indicators) are kept inside the
\* constraint record and quantified where the constraint is evaluated.
\* ------------------------------------------------------------------------
CpModel == [num_vars |-> 0, constraints |-> {}]

\* model.Add(sum(vars) op rhs)
Linear(vars, op, rhs) == [kind |-> "linear", vars |-> vars, op |-> op, rhs |-> rhs]

\* model.Add(x == y)
Equal(x, y) == [kind |-> "equal", x |-> x, y |-> y]

\* model.Add(sum(vars) op rhs).OnlyEnforceIf(lit)
Enforced(lit, vars, op, rhs) ==
    [kind |-> "enforced", lit |-> lit, vars |-> vars, op |-> op, rhs |-> rhs]

\* under_min = model.NewIntVar(0, 10, ...); model.Add(sum(vars) + under_min >= target)
SoftMin(name, vars, target) ==
    [kind |-> "soft_min", name |-> name, vars |-> vars, target |-> target, ub |-> 10]

\* penalty_var = model.NewIntVar(0, len(vars) - 1, ...);
\* model.Add(sum(vars) <= 1 + penalty_var)
SoftMax(name, vars) ==
    [kind |-> "soft_max", name |-> name, vars |-> vars, ub |-> Cardinality(vars) - 1]

\* one is_rdo indicator per day of `days`; sum(indicators) == 1
RdoWeek(name, days) == [kind |-> "rdo", name |-> name, days |-> days]

ReplaceAll(model, cs) == [model EXCEPT !.constraints = cs]
AddAll(model, cs) == [model EXCEPT !.constraints = @ \cup cs]

Count(a, vars) == Cardinality({v \in vars : a[v] = 1})

Compare(n, op, rhs) ==
    CASE op = "==" -> n = rhs
      [] op = "<=" -> n <= rhs
      [] op = ">=" -> n >= rhs

SatLinear(a, c) == Compare(Count(a, c.vars), c.op, c.rhs)

SatSoftMin(a, c) == \E under_min \in 0..c.ub : Count(a, c.vars) + under_min >= c.target

SatSoftMax(a, c) == \E penalty_var \in 0..c.ub : Count(a, c.vars) <= 1 + penalty_var

\* day.zero: variables whose sum is 0 when is_rdo holds; day.pos: TRUE when
\* the sum must be > 0 when is_rdo does not hold; day.off: variables forced
\* to 0 by is_rdo alone; day.ycall: yesterday's call variable, if any.
SatRdoDayClinicOnly(a, day, is_rdo) ==
    /\ is_rdo => Count(a, day.zero) = 0
    /\ (~is_rdo /\ day.pos) => Count(a, day.zero) > 0
SatRdoDay(a, day, is_rdo) ==
    /\ is_rdo => (Count(a, day.zero) = 0 /\ Count(a, day.off) = 0)
    /\ (~is_rdo /\ day.pos) => Count(a, day.zero) > 0

\* the values of the is_rdo indicators of one week that the constraints admit
RdoAtMostOne(a, c) ==
    {ind \in [c.days -> BOOLEAN] :
        /\ \A day \in c.days : SatRdoDay(a, day, ind[day])
        /\ Cardinality({day \in c.days : ind[day]}) <= 1}
RdoChoices(a, c) ==
    {ind \in [c.days -> BOOLEAN] :
        /\ \A day \in c.days : SatRdoDay(a, day, ind[day])
        /\ Cardinality({day \in c.days : ind[day]}) = 1}

SatRdo(a, c) == RdoChoices(a, c) # {}

Sat(a, c) ==
    CASE c.kind = "linear" -> SatLinear(a, c)
      [] c.kind = "equal" -> a[c.x] = a[c.y]
      [] c.kind = "enforced" -> (a[c.lit] = 1 => Compare(Count(a, c.vars), c.op, c.rhs))
      [] c.kind = "soft_min" -> SatSoftMin(a, c)
      [] c.kind = "soft_max" -> SatSoftMax(a, c)
      [] c.kind = "rdo" -> SatRdo(a, c)
      [] c.kind = "fracture" -> TRUE

Assignments(model) == [1..model.num_vars -> {0, 1}]
Solutions(model) == {a \in Assignments(model) : \A c \in model.constraints : Sat(a, c)}

\* ------------------------------------------------------------------------
\* The variable fabric: shift_vars[provider][date][session] = variable
\* ------------------------------------------------------------------------
ProviderNames(providers) == [i \in 1..Len(providers) |-> providers[i].name]
ProviderInfo(providers, p) == providers[CHOOSE i \in 1..Len(providers) : providers[i].name = p]
HasProvider(providers, p) == \E i \in 1..Len(providers) : providers[i].name = p

TotalSlots(cal) == SumSeq([j \in 1..Len(cal) |-> Len(cal[j].sessions)])
SlotsBefore(cal, j) == SumSeq([l \in 1..(j - 1) |-> Len(cal[l].sessions)])
LastPos(seq, s) == CHOOSE k \in 1..Len(seq) :
                       seq[k] = s /\ \A k2 \in (k + 1)..Len(seq) : seq[k2] # s
LastIndex(names, p) == CHOOSE i \in 1..Len(names) :
                           names[i] = p /\ \A i2 \in (i + 1)..Len(names) : names[i2] # p

\* the number NewBoolVar gives the variable of provider i, calendar item j,
\* session position k
VarSharedAcrossProviders(base, cal, i, j, k) == base + SlotsBefore(cal, j) + k
VarIndex(base, cal, i, j, k) == base + (i - 1) * TotalSlots(cal) + SlotsBefore(cal, j) + k

create_shift_variables(model, names, cal) ==
    [model |-> [model EXCEPT !.num_vars = @ + Len(names) * TotalSlots(cal)],
     shift_vars |->
        [p \in SeqToSet(names) |->
            [d \in CalKeys(cal) |->
                [s \in SeqToSet(CalSessions(cal, d)) |->
                    VarIndex(model.num_vars, cal, LastIndex(names, p), CalGet(cal, d),
                             LastPos(CalSessions(cal, d), s))]]]]

\* shift_vars.get(provider, {}).get(date, {})
FabricGet(shift_vars, p, d) == Get(Get(shift_vars, p, EmptyDict), d, EmptyDict)

\* the (provider, date, session) triples that have a variable
FabricKeys(shift_vars) ==
    UNION {UNION {{<<p, d, s>> : s \in DOMAIN shift_vars[p][d]} : d \in DOMAIN shift_vars[p]}
              : p \in DOMAIN shift_vars}

DayVars(shift_vars, p, d) == {FabricGet(shift_vars, p, d)[s] : s \in DOMAIN FabricGet(shift_vars, p, d)}

\* ------------------------------------------------------------------------
\* constraints/internal_medicine.py
\* ------------------------------------------------------------------------
LeaveNotPosted(model, shift_vars, leave_df) == model
add_leave_constraints(model, shift_vars, leave_df) ==
    AddAll(model, UNION {{Linear({v}, "==", 0) : v \in DayVars(shift_vars, row.provider, row.date)}
                          : row \in leave_df})

SpanDatesOnly(inpatient_starts_df, inpatient_days_df) ==
    {<<row.provider, row.date>> : row \in inpatient_days_df}
IM_blocked_dates(inpatient_starts_df, inpatient_days_df) ==
    {<<row.provider, row.start_date - 1>> : row \in inpatient_starts_df}
    \cup {<<row.provider, row.start_date + 10>> : row \in inpatient_starts_df}
    \cup {<<row.provider, row.date>> : row \in inpatient_days_df}

IM_add_inpatient_block_constraints(model, shift_vars, inpatient_starts_df, inpatient_days_df) ==
    AddAll(model, UNION {{Linear({v}, "==", 0) : v \in DayVars(shift_vars, pd[1], pd[2])}
                          : pd \in IM_blocked_dates(inpatient_starts_df, inpatient_days_df)})

post_inpatient_weeks(inpatient_starts_df, p) ==
    {get_week_key(row.start_date + 6 + 1) : row \in {r \in inpatient_starts_df : r.provider = p}}

\* weekly_shifts[provider]: week key -> variables of every session of the week
IM_weeks(shift_vars, p) ==
    {get_week_key(d) : d \in {x \in DOMAIN shift_vars[p] : DOMAIN shift_vars[p][x] # {}}}
IM_week_vars(shift_vars, p, wk) ==
    UNION {DayVars(shift_vars, p, d) : d \in {x \in DOMAIN shift_vars[p] : get_week_key(x) = wk}}

IM_target_max(providers, inpatient_starts_df, p, wk) ==
    LET base_max_clinics == ProviderInfo(providers, p).max_clinics_per_week
    IN IF wk \in post_inpatient_weeks(inpatient_starts_df, p)
       THEN Max2(0, base_max_clinics - 2) ELSE base_max_clinics

MinimumAtMaximum(shift_vars, providers, inpatient_starts_df) ==
    {SoftMin(<<p, wk>>, IM_week_vars(shift_vars, p, wk),
             IM_target_max(providers, inpatient_starts_df, p, wk))
        : <<p, wk>> \in UNION {{<<q, w>> : w \in IM_weeks(shift_vars, q)}
                               : q \in {x \in DOMAIN shift_vars : HasProvider(providers, x)}}}
IM_clinic_count_terms(shift_vars, providers, inpatient_starts_df) ==
    {SoftMin(<<p, wk>>, IM_week_vars(shift_vars, p, wk),
             Max2(1, IM_target_max(providers, inpatient_starts_df, p, wk) - 1))
        : <<p, wk>> \in UNION {{<<q, w>> : w \in IM_weeks(shift_vars, q)}
                               : q \in {x \in DOMAIN shift_vars : HasProvider(providers, x)}}}

IM_add_clinic_count_constraints(model, shift_vars, providers, inpatient_starts_df) ==
    LET terms == IM_clinic_count_terms(shift_vars, providers, inpatient_starts_df)
    IN [model |-> AddAll(model,
                    {Linear(t.vars, "<=", IM_target_max(providers, inpatient_starts_df,
                                                        t.name[1], t.name[2])) : t \in terms}
                    \cup terms),
        objective_terms |-> terms]

IM_blocked_weeks(leave_df, inpatient_days_df, clinic_rules, providers, p) ==
    {get_week_key(row.date) : row \in {r \in leave_df : r.provider = p}}
    \cup {get_week_key(row.date) : row \in {r \in inpatient_days_df : r.provider = p}}
    \cup (IF HasProvider(providers, p) /\ ProviderInfo(providers, p).role \in {"MD", "DO"}
          THEN {get_week_key(h) : h \in Get(clinic_rules, "holiday_dates", {})}
          ELSE {})

rdo_eligible_dates(shift_vars, clinic_rules, providers, p, wk) ==
    LET eligible_days == Get(Get(clinic_rules, "random_day_off", EmptyDict), "eligible_days", {})
        eligible_dates == {d \in DOMAIN shift_vars[p] :
                              strftimeA(d) \in eligible_days /\ get_week_key(d) = wk}
        preferred_day == Get(ProviderInfo(providers, p), "rdo_preference", None)
        preferred_dates == {d \in eligible_dates : Some(strftimeA(d)) = preferred_day}
    IN IF preferred_day # None /\ preferred_dates # {} THEN preferred_dates ELSE eligible_dates

IM_add_rdo_constraints(model, shift_vars, leave_df, inpatient_days_df, clinic_rules, providers) ==
    AddAll(model,
        {RdoWeek(<<p, wk>>,
                 {[date |-> d, zero |-> DayVars(shift_vars, p, d), pos |-> TRUE, off |-> {},
                   ycall |-> {}]
                     : d \in rdo_eligible_dates(shift_vars, clinic_rules, providers, p, wk)})
            : <<p, wk>> \in
                {pw \in UNION {{<<q, get_week_key(d)>> : d \in DOMAIN shift_vars[q]}
                                : q \in DOMAIN shift_vars} :
                    /\ pw[2] \notin IM_blocked_weeks(leave_df, inpatient_days_df, clinic_rules,
                                                     providers, pw[1])
                    /\ rdo_eligible_dates(shift_vars, clinic_rules, providers, pw[1], pw[2]) # {}}})

\* staff_vars of one (date, session) slot
staff_vars(shift_vars, d, s) ==
    {shift_vars[p][d][s] : p \in {q \in DOMAIN shift_vars :
                                     d \in DOMAIN shift_vars[q] /\ s \in DOMAIN shift_vars[q][d]}}

StaffingSlots(cal, sessions_counted) ==
    {<<cal[j].date, s>> : <<j, s>> \in {js \in (1..Len(cal)) \X sessions_counted :
                                            js[2] \in SeqToSet(cal[js[1]].sessions)}}

StaffingMaxOnly(shift_vars, cal, clinic_rules, sessions_counted) ==
    LET max_staff == Get(Get(clinic_rules, "staffing", EmptyDict), "max_providers_per_session", 5)
        slots == {ds \in StaffingSlots(cal, sessions_counted) :
                     staff_vars(shift_vars, ds[1], ds[2]) # {}}
    IN {Linear(staff_vars(shift_vars, ds[1], ds[2]), "<=", max_staff) : ds \in slots}
StaffingMinOnly(shift_vars, cal, clinic_rules, sessions_counted) ==
    LET min_staff == Get(Get(clinic_rules, "staffing", EmptyDict), "min_providers_per_session", 1)
        slots == {ds \in StaffingSlots(cal, sessions_counted) :
                     staff_vars(shift_vars, ds[1], ds[2]) # {}}
    IN {Linear(staff_vars(shift_vars, ds[1], ds[2]), ">=", min_staff) : ds \in slots}
StaffingConstraints(shift_vars, cal, clinic_rules, sessions_counted) ==
    LET min_staff == Get(Get(clinic_rules, "staffing", EmptyDict), "min_providers_per_session", 1)
        max_staff == Get(Get(clinic_rules, "staffing", EmptyDict), "max_providers_per_session", 5)
        slots == {ds \in StaffingSlots(cal, sessions_counted) :
                     staff_vars(shift_vars, ds[1], ds[2]) # {}}
    IN {Linear(staff_vars(shift_vars, ds[1], ds[2]), ">=", min_staff) : ds \in slots}
       \cup {Linear(staff_vars(shift_vars, ds[1], ds[2]), "<=", max_staff) : ds \in slots}

IM_add_min_max_staffing_constraints(model, shift_vars, cal, clinic_rules) ==
    AddAll(model, StaffingConstraints(shift_vars, cal, clinic_rules,
                                      {"morning", "afternoon", "call"}))

\* ------------------------------------------------------------------------
\* constraints/pediatrics.py
\* ------------------------------------------------------------------------
\* the Sunday that starts the week of d; the (year, month, day) triple of the
\* source names the same day
get_schedule_week_key(d) ==
    LET days_since_sunday == IF Weekday(d) < 6 THEN Weekday(d) + 1 ELSE 0
    IN d - days_since_sunday

ClinicKinds == {"morning", "afternoon"}

ClinicVars(shift_vars, p, d) ==
    {FabricGet(shift_vars, p, d)[s] : s \in (DOMAIN FabricGet(shift_vars, p, d)) \cap ClinicKinds}

HasCall(shift_vars, p, d) == "call" \in DOMAIN FabricGet(shift_vars, p, d)
CallVars(shift_vars, p, d) ==
    IF HasCall(shift_vars, p, d) THEN {shift_vars[p][d]["call"]} ELSE {}

PEDS_add_inpatient_block_constraints(model, shift_vars, inpatient_starts_df, inpatient_days_df) ==
    AddAll(model, UNION {{Linear({v}, "==", 0) : v \in ClinicVars(shift_vars, pd[1], pd[2])}
                          : pd \in IM_blocked_dates(inpatient_starts_df, inpatient_days_df)})

call_dates(shift_vars) ==
    UNION {{d \in DOMAIN shift_vars[p] : HasCall(shift_vars, p, d)} : p \in DOMAIN shift_vars}

providers_with_call(shift_vars, d) == {p \in DOMAIN shift_vars : HasCall(shift_vars, p, d)}

\* leave_blocked_dates[d]: on leave on d or on the day after d
leave_blocked_dates(leave_df, d) ==
    {row.provider : row \in {r \in leave_df : r.date = d \/ r.date - 1 = d}}

\* A2: the offsets from the start of a rotation on which its provider is
\* blocked from call, by inpatient_type
block_days(inpatient_type) ==
    IF inpatient_type = "peds" THEN {-2, -1, 0, 1, 2, 5, 6, 8, 9}
    ELSE {-2, -1, 0, 1, 2, 3, 4, 5, 6, 8, 9}

inpatient_blocked_dates(inpatient_starts_df, d) ==
    {row.provider : row \in {r \in inpatient_starts_df :
                                d - r.start_date \in block_days(r.inpatient_type)}}

\* A3: the Friday and the Saturday of a pediatric rotation, as <<date, provider>>
\* (one pediatric rotation covers a date in the frames explored)
friday_saturday_assignments(inpatient_starts_df) ==
    UNION {{<<row.start_date + 3, row.provider>>, <<row.start_date + 4, row.provider>>}
              : row \in {r \in inpatient_starts_df : r.inpatient_type = "peds"}}

fracture_providers(providers) ==
    {providers[i].name : i \in {k \in 1..Len(providers) :
                                   Get(providers[k], "fracture_clinic", FALSE)}}

SunThu == {"Sunday", "Monday", "Tuesday", "Wednesday", "Thursday"}
MonThu == {"Monday", "Tuesday", "Wednesday", "Thursday"}

sun_thu_call_dates(shift_vars) == {d \in call_dates(shift_vars) : strftimeA(d) \in SunThu}

\* B1: exactly one provider on call each day
CallAtMostOne(shift_vars) ==
    {Linear(UNION {CallVars(shift_vars, p, d) : p \in providers_with_call(shift_vars, d)}, "<=", 1)
        : d \in call_dates(shift_vars)}
CallExactlyOne(shift_vars) ==
    {Linear(UNION {CallVars(shift_vars, p, d) : p \in providers_with_call(shift_vars, d)}, "==", 1)
        : d \in call_dates(shift_vars)}

\* B2: the provider of a pediatric rotation takes call on its Friday and Saturday
ForcedCall(shift_vars, inpatient_starts_df) ==
    {Linear({shift_vars[x[2]][x[1]]["call"]}, "==", 1)
        : x \in {y \in friday_saturday_assignments(inpatient_starts_df) :
                    y[2] \in DOMAIN shift_vars /\ HasCall(shift_vars, y[2], y[1])}}

\* B3: leave, inpatient and fracture-clinic blocking
CallNotBlocked(shift_vars, leave_df, inpatient_starts_df, providers) == {}
CallBlocking(shift_vars, leave_df, inpatient_starts_df, providers) ==
    {Linear({shift_vars[pd[1]][pd[2]]["call"]}, "==", 0)
        : pd \in {x \in UNION {{<<p, d>> : p \in providers_with_call(shift_vars, d)}
                                : d \in call_dates(shift_vars)} :
                     \/ x[1] \in leave_blocked_dates(leave_df, x[2])
                     \/ x[1] \in inpatient_blocked_dates(inpatient_starts_df, x[2])
                     \/ (x[1] \in fracture_providers(providers) /\ strftimeA(x[2]) = "Tuesday")}}

\* C1: the two dates a holiday pairs, if any
HolidayPair(h) ==
    IF strftimeA(h) \in MonThu THEN {<<h - 1, h>>}
    ELSE IF strftimeA(h) = "Friday" THEN {<<h - 1, h + 2>>}
    ELSE {}

HolidayPairingNotPosted(shift_vars, leave_df, inpatient_starts_df, holiday_dates) == {}
HolidayPairing(shift_vars, leave_df, inpatient_starts_df, holiday_dates) ==
    {Equal(shift_vars[x[1]][x[2][2]]["call"], shift_vars[x[1]][x[2][1]]["call"])
        : x \in {y \in (DOMAIN shift_vars) \X UNION {HolidayPair(h) : h \in holiday_dates} :
                    /\ HasCall(shift_vars, y[1], y[2][1])
                    /\ HasCall(shift_vars, y[1], y[2][2])
                    /\ y[1] \notin inpatient_blocked_dates(inpatient_starts_df, y[2][1])
                    /\ y[1] \notin inpatient_blocked_dates(inpatient_starts_df, y[2][2])
                    /\ y[1] \notin leave_blocked_dates(leave_df, y[2][1])
                    /\ y[1] \notin leave_blocked_dates(leave_df, y[2][2])}}

call_week_dates(shift_vars, wk) ==
    {d \in sun_thu_call_dates(shift_vars) : get_schedule_week_key(d) = wk}

call_week_keys(shift_vars) == {get_schedule_week_key(d) : d \in sun_thu_call_dates(shift_vars)}

\* C2: no back-to-back call inside a week without a Monday-Thursday holiday
BackToBackNotPosted(shift_vars, holiday_dates) == {}
BackToBack(shift_vars, holiday_dates) ==
    {Linear({shift_vars[x[1]][x[2]]["call"], shift_vars[x[1]][x[2] + 1]["call"]}, "<=", 1)
        : x \in {y \in (DOMAIN shift_vars) \X sun_thu_call_dates(shift_vars) :
                    LET week_dates == call_week_dates(shift_vars, get_schedule_week_key(y[2]))
                    IN /\ y[2] + 1 \in week_dates
                       /\ ~ \E h \in holiday_dates \cap week_dates : strftimeA(h) \in MonThu
                       /\ HasCall(shift_vars, y[1], y[2])
                       /\ HasCall(shift_vars, y[1], y[2] + 1)}}

provider_call_vars(shift_vars, p, wk) ==
    UNION {CallVars(shift_vars, p, d) : d \in call_week_dates(shift_vars, wk)}

\* D1: penalty for more than one call in a call week
MultipleCall(shift_vars) ==
    {SoftMax(<<x[1], x[2]>>, provider_call_vars(shift_vars, x[1], x[2]))
        : x \in {y \in (DOMAIN shift_vars) \X call_week_keys(shift_vars) :
                    Cardinality(provider_call_vars(shift_vars, y[1], y[2])) >= 2}}

\* row['inpatient_type'] is read for every row of inpatient_starts_df, which
\* load_inpatient returns with the columns provider and start_date only
PEDS_add_call_constraints(model, shift_vars, leave_df, inpatient_starts_df, clinic_rules, providers) ==
    IF \E row \in inpatient_starts_df : "inpatient_type" \notin DOMAIN row
    THEN [exc |-> "KeyError", model |-> model, objective_terms |-> {}]
    ELSE LET holiday_dates == Get(clinic_rules, "holiday_dates", {})
             penalties == MultipleCall(shift_vars)
         IN [exc |-> "none",
             model |-> AddAll(model,
                          CallExactlyOne(shift_vars)
                          \cup ForcedCall(shift_vars, inpatient_starts_df)
                          \cup CallBlocking(shift_vars, leave_df, inpatient_starts_df, providers)
                          \cup HolidayPairing(shift_vars, leave_df, inpatient_starts_df,
                                             holiday_dates)
                          \cup BackToBack(shift_vars, holiday_dates)
                          \cup penalties),
             objective_terms |->
                 {t \in penalties :
                     holiday_dates \cap call_week_dates(shift_vars, t.name[2]) = {}}]

calendar_call_dates(cal) == {cal[j].date : j \in {k \in 1..Len(cal) :
                                                     "call" \in SeqToSet(cal[k].sessions)}}

limited_providers(providers) ==
    {i \in 1..Len(providers) : /\ "max_calls_per_month" \in DOMAIN providers[i]
                               /\ providers[i].max_calls_per_month > 0}

add_monthly_call_limits(model, shift_vars, cal, providers) ==
    LET dates == calendar_call_dates(cal)
    IN IF dates = {} THEN model
       ELSE AddAll(model,
              {Linear(UNION {CallVars(shift_vars, providers[x[1]].name, d)
                                : d \in {c \in dates : x[2] <= c /\ c <= x[2] + 27}},
                      "<=", providers[x[1]].max_calls_per_month)
                  : x \in {y \in limited_providers(providers) \X dates :
                              /\ y[2] + 27 <= MaxOf(dates)
                              /\ UNION {CallVars(shift_vars, providers[y[1]].name, d)
                                           : d \in {c \in dates : y[2] <= c /\ c <= y[2] + 27}}
                                 # {}}})

PostCallNotPosted(model, shift_vars, cal) == model
add_post_call_afternoon_constraints(model, shift_vars, cal) ==
    AddAll(model,
        {Enforced(shift_vars[x[1]][x[2]]["call"], {shift_vars[x[1]][x[2] + 1]["afternoon"]}, "==", 0)
            : x \in {y \in (DOMAIN shift_vars) \X calendar_call_dates(cal) :
                        /\ y[2] + 1 \in CalKeys(cal)
                        /\ "afternoon" \in SeqToSet(CalSessions(cal, y[2] + 1))
                        /\ HasCall(shift_vars, y[1], y[2])
                        /\ "afternoon" \in DOMAIN FabricGet(shift_vars, y[1], y[2] + 1)}})

PEDS_post_inpatient_weeks(inpatient_starts_df, p) ==
    {get_schedule_week_key(row.start_date + 6 + 1)
        : row \in {r \in inpatient_starts_df : r.provider = p}}

PEDS_weeks(shift_vars, p) ==
    {get_schedule_week_key(d) : d \in {x \in DOMAIN shift_vars[p] :
                                           ClinicVars(shift_vars, p, x) # {}}}
PEDS_week_vars(shift_vars, p, wk) ==
    UNION {ClinicVars(shift_vars, p, d)
              : d \in {x \in DOMAIN shift_vars[p] : get_schedule_week_key(x) = wk}}

PEDS_target_max(providers, inpatient_starts_df, p, wk) ==
    LET base_max_clinics == ProviderInfo(providers, p).max_clinics_per_week
    IN IF wk \in PEDS_post_inpatient_weeks(inpatient_starts_df, p)
       THEN Max2(0, base_max_clinics - 2) ELSE base_max_clinics

PEDS_clinic_count_terms(shift_vars, providers, inpatient_starts_df) ==
    {SoftMin(<<p, wk>>, PEDS_week_vars(shift_vars, p, wk),
             Max2(1, PEDS_target_max(providers, inpatient_starts_df, p, wk)))
        : <<p, wk>> \in UNION {{<<q, w>> : w \in PEDS_weeks(shift_vars, q)}
                               : q \in {x \in DOMAIN shift_vars : HasProvider(providers, x)}}}

PEDS_add_clinic_count_constraints(model, shift_vars, providers, inpatient_starts_df) ==
    LET terms == PEDS_clinic_count_terms(shift_vars, providers, inpatient_starts_df)
    IN [model |-> AddAll(model,
                    {Linear(t.vars, "<=", PEDS_target_max(providers, inpatient_starts_df,
                                                          t.name[1], t.name[2])) : t \in terms}
                    \cup terms),
        objective_terms |-> terms]

PEDS_blocked_weeks(leave_df, inpatient_days_df, clinic_rules, providers, p) ==
    {get_schedule_week_key(row.date) : row \in {r \in leave_df : r.provider = p}}
    \cup {get_schedule_week_key(row.date) : row \in {r \in inpatient_days_df : r.provider = p}}
    \cup (IF HasProvider(providers, p) /\ ProviderInfo(providers, p).role \in {"MD", "DO"}
          THEN {get_schedule_week_key(h) : h \in Get(clinic_rules, "holiday_dates", {})}
          ELSE {})

PEDS_rdo_eligible_dates(shift_vars, clinic_rules, providers, p, wk) ==
    LET eligible_days == Get(Get(clinic_rules, "random_day_off", EmptyDict), "eligible_days", {})
        eligible_dates == {d \in DOMAIN shift_vars[p] :
                              strftimeA(d) \in eligible_days /\ get_schedule_week_key(d) = wk}
        preferred_day == Get(ProviderInfo(providers, p), "rdo_preference", None)
        preferred_dates == {d \in eligible_dates : Some(strftimeA(d)) = preferred_day}
    IN IF preferred_day # None /\ preferred_dates # {} THEN preferred_dates ELSE eligible_dates

providers_needing_rdo(providers) ==
    {providers[i].name : i \in {k \in 1..Len(providers) : Get(providers[k], "needs_rdo", TRUE)}}

PEDS_rdo_weeks(shift_vars, leave_df, inpatient_days_df, clinic_rules, providers) ==
    {RdoWeek(<<p, wk>>,
             {[date |-> d, zero |-> ClinicVars(shift_vars, p, d),
               pos |-> ClinicVars(shift_vars, p, d) # {},
               off |-> CallVars(shift_vars, p, d),
               ycall |-> CallVars(shift_vars, p, d - 1)]
                 : d \in PEDS_rdo_eligible_dates(shift_vars, clinic_rules, providers, p, wk)})
        : <<p, wk>> \in
            {pw \in UNION {{<<q, get_schedule_week_key(d)>> : d \in DOMAIN shift_vars[q]}
                            : q \in (DOMAIN shift_vars) \cap providers_needing_rdo(providers)} :
                /\ pw[2] \notin PEDS_blocked_weeks(leave_df, inpatient_days_df, clinic_rules,
                                                   providers, pw[1])
                /\ PEDS_rdo_eligible_dates(shift_vars, clinic_rules, providers, pw[1], pw[2])
                   # {}}}

PEDS_add_rdo_constraints(model, shift_vars, leave_df, inpatient_days_df, clinic_rules, providers) ==
    LET weeks == PEDS_rdo_weeks(shift_vars, leave_df, inpatient_days_df, clinic_rules, providers)
    IN [model |-> AddAll(model, weeks),
        objective_terms |-> {w \in weeks : \E day \in w.days : day.ycall # {}}]

PEDS_add_min_max_staffing_constraints(model, shift_vars, cal, clinic_rules) ==
    AddAll(model, StaffingConstraints(shift_vars, cal, clinic_rules, ClinicKinds))

\* ------------------------------------------------------------------------
\* constraints/family_practice.py
\* add_leave_constraints, add_inpatient_block_constraints and
\* add_min_max_staffing_constraints are the code of internal_medicine.py.
\* A row of peds_schedule_df is [date, session, providers], providers being
\* the list that splitting the comma-joined column gives.
\* ------------------------------------------------------------------------
PedsRows(peds_schedule_df) == IF peds_schedule_df = None THEN {} ELSE peds_schedule_df[1]

peds_call_dates(peds_schedule_df, p) ==
    {row.date : row \in {r \in PedsRows(peds_schedule_df) :
                            r.session = "call" /\ p \in SeqToSet(r.providers)}}

peds_clinic_dates(peds_schedule_df, p) ==
    {row.date : row \in {r \in PedsRows(peds_schedule_df) :
                            r.session \in ClinicKinds /\ p \in SeqToSet(r.providers)}}

add_pediatric_call_constraints(model, shift_vars, peds_schedule_df) ==
    AddAll(model,
        UNION {LET sessions == IF x[1].session = "call"
                               THEN DOMAIN FabricGet(shift_vars, x[2], x[1].date + 1)
                                    \cap {"afternoon"}
                               ELSE DOMAIN FabricGet(shift_vars, x[2], x[1].date)
                                    \cap ({x[1].session} \cap ClinicKinds)
                   day == IF x[1].session = "call" THEN x[1].date + 1 ELSE x[1].date
               IN {Linear({shift_vars[x[2]][day][s]}, "==", 0) : s \in sessions}
                 : x \in {y \in PedsRows(peds_schedule_df) \X (DOMAIN shift_vars) :
                             y[2] \in SeqToSet(y[1].providers)}})

\* the body of add_friday_only_constraints is not part of the sources; the
\* documented rule set names no constraint family for it
add_friday_only_constraints(model, shift_vars, cal, providers) == model

\* peds_clinics_by_provider_week[provider][week_key]
peds_sessions_this_week(peds_schedule_df, p, wk) ==
    SumOver({r \in PedsRows(peds_schedule_df) :
                r.session \in ClinicKinds /\ get_week_key(r.date) = wk},
            [r \in PedsRows(peds_schedule_df) |->
                Cardinality({i \in 1..Len(r.providers) : r.providers[i] = p})])

FP_adjusted_max(providers, inpatient_starts_df, peds_schedule_df, p, wk) ==
    Max2(0, IM_target_max(providers, inpatient_starts_df, p, wk)
            - peds_sessions_this_week(peds_schedule_df, p, wk))

FP_adjusted_min(adjusted_max_clinics) ==
    IF adjusted_max_clinics <= 1 THEN 0 ELSE Max2(0, adjusted_max_clinics)

FP_clinic_count_terms(shift_vars, providers, inpatient_starts_df, peds_schedule_df) ==
    {SoftMin(<<p, wk>>, IM_week_vars(shift_vars, p, wk),
             FP_adjusted_min(FP_adjusted_max(providers, inpatient_starts_df, peds_schedule_df,
                                             p, wk)))
        : <<p, wk>> \in UNION {{<<q, w>> : w \in IM_weeks(shift_vars, q)}
                               : q \in {x \in DOMAIN shift_vars : HasProvider(providers, x)}}}

FP_add_clinic_count_constraints(model, shift_vars, providers, inpatient_starts_df, peds_schedule_df) ==
    LET terms == FP_clinic_count_terms(shift_vars, providers, inpatient_starts_df,
                                       peds_schedule_df)
    IN [model |-> AddAll(model,
                    {Linear(t.vars, "<=",
                            FP_adjusted_max(providers, inpatient_starts_df, peds_schedule_df,
                                            t.name[1], t.name[2])) : t \in terms}
                    \cup terms),
        objective_terms |-> terms]

\* penalty_var of one Wednesday: 1 when no fracture provider works both sessions
Fracture(wednesday, full_days) ==
    [kind |-> "fracture", name |-> wednesday, full_days |-> full_days]

add_fracture_clinic_constraints(model, shift_vars, cal, providers) ==
    LET fp == fracture_providers(providers)
        terms == {Fracture(w, {<<shift_vars[p][w]["morning"], shift_vars[p][w]["afternoon"]>>
                                  : p \in {q \in fp \cap DOMAIN shift_vars :
                                              ClinicKinds \subseteq
                                                  DOMAIN FabricGet(shift_vars, q, w)}})
                     : w \in {d \in CalKeys(cal) :
                                 /\ strftimeA(d) = "Wednesday"
                                 /\ ClinicKinds \subseteq SeqToSet(CalSessions(cal, d))
                                 /\ \E q \in fp \cap DOMAIN shift_vars :
                                        ClinicKinds \subseteq DOMAIN FabricGet(shift_vars, q, d)}}
    IN IF Cardinality(fp) < 2 THEN [model |-> model, objective_terms |-> {}]
       ELSE [model |-> AddAll(model, terms), objective_terms |-> terms]

FP_rdo_weeks(shift_vars, leave_df, inpatient_days_df, clinic_rules, providers, peds_schedule_df) ==
    {w \in {RdoWeek(<<p, wk>>,
                    {[date |-> d, zero |-> DayVars(shift_vars, p, d), pos |-> TRUE,
                      off |-> {}, ycall |-> {},
                      after_call |-> (d - 1) \in peds_call_dates(peds_schedule_df, p)]
                        : d \in rdo_eligible_dates(shift_vars, clinic_rules, providers, p, wk)
                                \ (peds_clinic_dates(peds_schedule_df, p)
                                   \cup peds_call_dates(peds_schedule_df, p))})
               : <<p, wk>> \in
                   {pw \in UNION {{<<q, get_week_key(d)>> : d \in DOMAIN shift_vars[q]}
                                   : q \in DOMAIN shift_vars} :
                       pw[2] \notin IM_blocked_weeks(leave_df, inpatient_days_df,
                                                     clinic_rules, providers, pw[1])}} :
        w.days # {}}

\* returns rdo_penalty_vars: one post_call_rdo == is_rdo per day after a
\* pediatric call of the provider
FP_add_rdo_constraints(model, shift_vars, leave_df, inpatient_days_df, clinic_rules, providers, peds_schedule_df) ==
    LET weeks == FP_rdo_weeks(shift_vars, leave_df, inpatient_days_df, clinic_rules, providers,
                              peds_schedule_df)
    IN [model |-> AddAll(model, weeks),
        objective_terms |-> {w \in weeks : \E day \in w.days : day.after_call}]

\* ------------------------------------------------------------------------
\* The solver (external): statuses, objective and values
\* ------------------------------------------------------------------------
\* the coefficient of a penalty in the terms the assemblers return:
\* under_min * 100, penalty_var * 100, and post_call_rdo as it is
Weight(t) == IF t.kind = "rdo" THEN 1 ELSE 100
\* the least value a penalty term can take under assignment a
TermValue(a, t) ==
    CASE t.kind = "soft_min" -> Weight(t) * Max2(0, t.target - Count(a, t.vars))
      [] t.kind = "soft_max" -> Weight(t) * Max2(0, Count(a, t.vars) - 1)
      [] t.kind = "fracture" ->
            IF \E fd \in t.full_days : a[fd[1]] = 1 /\ a[fd[2]] = 1 THEN 0 ELSE Weight(t)
      [] t.kind = "rdo" ->
            MinOf({Weight(t) * Cardinality({day \in t.days :
                                               ind[day] /\ Count(a, day.ycall) = 1})
                      : ind \in RdoChoices(a, t)})

\* value of sum(objective_terms) under solution a with every penalty at its
\* least admissible value
ObjectiveValue(a, terms) == SumOver(terms, [t \in terms |-> TermValue(a, t)])

SuccessStatuses == {"OPTIMAL", "FEASIBLE"}

\* the solutions of least objective value
OptimalSolutions(sols, terms) ==
    LET best == MinOf({ObjectiveValue(a, terms) : a \in sols})
    IN {a \in sols : ObjectiveValue(a, terms) = best}

\* solver.wall_time of a search that ends before the time limit: short, or
\* just under the limit
WallTimesSampled == {1, MaxWall}

\* what solver.Solve(model) may return: status, wall time, variable values.
\* Validation happens before any search and depends on the form of the
\* model, which is the same in every attempt of a run; a search may run
\* into the time limit on any model.
SolveOutcomes(sols, terms, accepted) ==
    IF ~accepted
    THEN {[status |-> "MODEL_INVALID", wall |-> 0, values |-> None]}
    ELSE (IF sols = {}
          THEN {[status |-> "INFEASIBLE", wall |-> w, values |-> None] : w \in WallTimesSampled}
          ELSE {[status |-> "OPTIMAL", wall |-> w, values |-> Some(a)]
                   : <<w, a>> \in WallTimesSampled \X OptimalSolutions(sols, terms)}
               \cup {[status |-> "FEASIBLE", wall |-> MaxWall, values |-> Some(a)] : a \in sols})
         \cup {[status |-> "UNKNOWN", wall |-> MaxWall, values |-> None]}

\* ------------------------------------------------------------------------
\* engine.py: state of one run of create_im_schedule / create_peds_schedule /
\* create_fp_schedule
\* ------------------------------------------------------------------------
VARIABLES
    dept,                   \* which driver runs: "im", "peds", "fp"
    start_date, end_date,   \* arguments
    config,                 \* parsed YAML: providers, clinic_rules
    leave_df,               \* rows [provider, date]
    inpatient_starts_df,    \* rows [provider, start_date]
    inpatient_days_df,      \* rows [provider, date]
    peds_schedule_df,       \* family practice: rows [date, session, providers], or None
    model_accepted,         \* whether CP-SAT's validation accepts the models of this run
    min_staffing_search, initial_min_providers,
    pc,                     \* position in the driver
    raised,                 \* exception that ended the run, or "none"
    calendar,
    original_config, current_config,
    min_provider_values,    \* list of thresholds to try
    idx,                    \* position of the for loop in min_provider_values
    min_providers,          \* loop variable
    model, shift_vars, objective_terms,
    status, solver_wall_time, solver_values, total_solve_time,
    best_schedule_df, best_provider_summary_df, best_call_summary_df,
    best_solution_status,
    result,                 \* the returned tuple, or None while running
    attempts                \* history: one record per solver call

inputs == <<dept, start_date, end_date, config, leave_df, inpatient_starts_df,
            inpatient_days_df, peds_schedule_df, model_accepted, min_staffing_search,
            initial_min_providers>>
attempt_vars == <<current_config, min_providers, model, shift_vars, objective_terms>>
solver_vars == <<status, solver_wall_time, solver_values, total_solve_time>>
best_vars == <<best_schedule_df, best_provider_summary_df, best_call_summary_df,
               best_solution_status>>
vars == <<dept, start_date, end_date, config, leave_df, inpatient_starts_df,
          inpatient_days_df, peds_schedule_df, model_accepted, min_staffing_search,
          initial_min_providers,
          pc, raised, calendar, original_config, current_config, min_provider_values,
          idx, min_providers, model, shift_vars, objective_terms,
          status, solver_wall_time, solver_values, total_solve_time,
          best_schedule_df, best_provider_summary_df, best_call_summary_df,
          best_solution_status, result, attempts>>

\* ------------------------------------------------------------------------
\* Inputs of the runs that are explored
\* ------------------------------------------------------------------------
Depts == {"im", "peds", "fp"}
Weekdays == {"Monday", "Tuesday", "Wednesday", "Thursday", "Friday"}

Roster ==
    <<[name |-> "A", role |-> "MD", max_clinics_per_week |-> 2],
      [name |-> "B", role |-> "NP", max_clinics_per_week |-> 3, rdo_preference |-> Some("Monday")]>>

BaseRules ==
    [clinic_days |-> Weekdays,
     clinic_sessions |-> [Monday |-> <<"morning">>, Tuesday |-> <<"morning", "afternoon">>,
                          Wednesday |-> <<"afternoon">>, Thursday |-> <<"morning">>,
                          Friday |-> <<"morning">>],
     call_days |-> {"Sunday", "Monday"},
     holiday_dates |-> {},
     staffing |-> [min_providers_per_session |-> 1, max_providers_per_session |-> 2],
     random_day_off |-> [eligible_days |-> {"Monday", "Tuesday", "Wednesday", "Friday"}]]

\* rules documents of the controller runs: with and without a staffing section
RunRules == {BaseRules, Without(BaseRules, "staffing")}

\* load_leave_requests / load_inpatient keep the rows of the department's providers
FilterProviders(rows, providers) == {r \in rows : HasProvider(providers, r.provider)}

\* load_inpatient: one row per day of the rotation
ExpandInpatient(starts, length) ==
    UNION {{[provider |-> r.provider, date |-> r.start_date + i] : i \in 0..(length - 1)}
              : r \in starts}

LeaveChoices == {{}, {[provider |-> "A", date |-> 0]}}
InpatientChoices == {{}, {[provider |-> "A", start_date |-> 1]}}

\* the pediatric schedule file of a family practice run: absent, or two rows
PedsScheduleChoices ==
    {None, Some({[date |-> 0, session |-> "call", providers |-> <<"A">>],
                 [date |-> 1, session |-> "morning", providers |-> <<"B">>]})}

ControlAtRest ==
    /\ pc = "start"
    /\ raised = "none"
    /\ calendar = <<>>
    /\ original_config = None
    /\ current_config = None
    /\ min_provider_values = <<>>
    /\ idx = 0
    /\ min_providers = -1
    /\ model = CpModel
    /\ shift_vars = EmptyDict
    /\ objective_terms = {}
    /\ status = "none"
    /\ solver_wall_time = 0
    /\ solver_values = None
    /\ total_solve_time = 0
    /\ best_schedule_df = None
    /\ best_provider_summary_df = None
    /\ best_call_summary_df = None
    /\ best_solution_status = None
    /\ result = None
    /\ attempts = <<>>

Init ==
    /\ dept \in Depts
    /\ start_date = 0
    /\ end_date \in {0, MaxDay}
    /\ config \in {[providers |-> SubSeq(Roster, 1, n), clinic_rules |-> r]
                      : <<n, r>> \in (0..Len(Roster)) \X RunRules}
    /\ leave_df \in {FilterProviders(l, config.providers) : l \in LeaveChoices}
    /\ inpatient_starts_df \in {FilterProviders(i, config.providers) : i \in InpatientChoices}
    /\ inpatient_days_df = ExpandInpatient(inpatient_starts_df, 7)
    /\ peds_schedule_df \in IF dept = "fp" THEN PedsScheduleChoices ELSE {None}
    /\ model_accepted \in BOOLEAN
    /\ min_staffing_search \in BOOLEAN
    /\ initial_min_providers \in IF min_staffing_search THEN {-1, 0, 1, MaxInit} ELSE {MaxInit}
    /\ ControlAtRest

\* ------------------------------------------------------------------------
\* Solution Materializer (engine.py)
\* ------------------------------------------------------------------------
Value(values, v) == values[1][v]

\* providers of shift_vars, in dict order, whose variable of the slot is 1
ScheduledWithoutValue(names, sv, values, d, s) ==
    SelectSeq(names, LAMBDA p : /\ p \in DOMAIN sv
                                /\ d \in DOMAIN sv[p]
                                /\ s \in DOMAIN sv[p][d])
scheduled(names, sv, values, d, s) ==
    SelectSeq(names, LAMBDA p : /\ p \in DOMAIN sv
                                /\ d \in DOMAIN sv[p]
                                /\ s \in DOMAIN sv[p][d]
                                /\ Value(values, sv[p][d][s]) = 1)

\* schedule_data: one row per (day, session), days ascending
RECURSIVE schedule_data(_, _, _, _, _)
schedule_data(cal, j, names, sv, values) ==
    IF j > Len(cal) THEN <<>>
    ELSE [k \in 1..Len(cal[j].sessions) |->
            [date |-> cal[j].date,
             day_of_week |-> strftimeA(cal[j].date),
             session |-> cal[j].sessions[k],
             providers |-> scheduled(names, sv, values, cal[j].date, cal[j].sessions[k]),
             count |-> Len(scheduled(names, sv, values, cal[j].date, cal[j].sessions[k]))]]
         \o schedule_data(cal, j + 1, names, sv, values)

\* schedule_df.loc[schedule_df['session'] == 'call', 'count'] = np.nan
NaNCallCounts(rows) ==
    [i \in 1..Len(rows) |-> IF rows[i].session = "call"
                            THEN [rows[i] EXCEPT !.count = -1] ELSE rows[i]]

SessionTotal(sv, values, p, kinds) ==
    Cardinality({ds \in UNION {{<<d, s>> : s \in DOMAIN sv[p][d]} : d \in DOMAIN sv[p]} :
                    ds[2] \in kinds /\ Value(values, sv[p][ds[1]][ds[2]]) = 1})

\* create_enhanced_provider_summary: the columns provider, total_AM, total_PM
create_enhanced_provider_summary(sv, values, providers) ==
    [i \in 1..Len(providers) |->
        [provider |-> providers[i].name,
         total_AM |-> SessionTotal(sv, values, providers[i].name, {"morning"}),
         total_PM |-> SessionTotal(sv, values, providers[i].name, {"afternoon"})]]

\* provider_summary_df[provider_summary_df['provider'].isin(providers_with_clinics)]
providers_with_clinics(summary, providers) ==
    SelectSeq(summary, LAMBDA row :
        Get(ProviderInfo(providers, row.provider), "max_clinics_per_week", 0) > 0)

\* the call summary of create_peds_schedule: the total_call column
call_summary(sv, values, providers) ==
    [i \in 1..Len(providers) |->
        [provider |-> providers[i].name,
         total_call |-> SessionTotal(sv, values, providers[i].name, {"call"})]]

\* clinic_only_df['count'].min() if not clinic_only_df.empty else 0
min_staff_achieved(rows) ==
    LET clinic_only == {rows[i].count : i \in {k \in 1..Len(rows) :
                                                  rows[k].session \in {"morning", "afternoon"}}}
    IN IF clinic_only = {} THEN 0 ELSE MinOf(clinic_only)

\* 'Minimum providers per session' of the success record
ReportedAchievedEverywhere(d, threshold, rows) == min_staff_achieved(rows)
ReportedThreshold(d, threshold, rows) ==
    IF d = "peds" THEN min_staff_achieved(rows) ELSE threshold

SuccessStatus(d, st, threshold, rows, values, terms, total) ==
    ("Status" :> (IF st = "OPTIMAL" THEN "OPTIMAL" ELSE "FEASIBLE"))
    @@ ("Minimum providers per session" :> ReportedThreshold(d, threshold, rows))
    @@ ("Objective value" :> (IF terms # {} THEN Some(ObjectiveValue(values[1], terms)) ELSE None))
    @@ ("Solve time" :> total)

FailureCode(st) ==
    IF st = "INFEASIBLE" THEN "infeasible"
    ELSE IF st = "MODEL_INVALID" THEN "model_invalid"
    ELSE IF st = "UNKNOWN" THEN "unknown" ELSE "error"

\* the record returned in direct mode when the single attempt fails
DirectFailureStatus(st, threshold, wall, total) ==
    ("status" :> FailureCode(st))
    @@ ("min_providers_per_session" :> threshold)
    @@ ("is_optimal" :> FALSE)
    @@ ("solve_time" :> wall)
    @@ ("total_solve_time" :> total)

\* the record returned when no attempt of the run succeeded
ExhaustedStatus(values_tried, total) ==
    ("status" :> "infeasible")
    @@ ("min_providers_tried" :> values_tried)
    @@ ("is_optimal" :> FALSE)
    @@ ("total_solve_time" :> total)

\* ------------------------------------------------------------------------
\* engine.py: the drivers
\* ------------------------------------------------------------------------
Pipeline(d) ==
    CASE d = "im" -> <<"leave", "inpatient", "clinic_count", "rdo", "staffing", "solve">>
      [] d = "peds" -> <<"leave", "inpatient", "call", "monthly_call", "post_call",
                         "clinic_count", "rdo", "staffing", "solve">>
      [] d = "fp" -> <<"leave", "inpatient", "pediatric_call", "friday_only", "clinic_count",
                       "fracture", "rdo", "staffing", "solve">>

After(d, label) ==
    LET p == Pipeline(d) IN p[(CHOOSE i \in 1..Len(p) : p[i] = label) + 1]

\* calendar = generate_clinic_calendar(start_date, end_date, config['clinic_rules'])
GenerateClinicCalendar ==
    /\ pc = "start"
    /\ dept \in {"im", "fp"}
    /\ LET r == generate_clinic_calendar(start_date, end_date, config.clinic_rules)
       IN /\ raised' = r.exc
          /\ calendar' = r.calendar
          /\ pc' = IF r.exc = "none" THEN "setup" ELSE "raised"
    /\ UNCHANGED <<inputs, original_config, min_provider_values, idx, attempt_vars,
                   solver_vars, best_vars, result, attempts>>

\* calendar = generate_pediatric_calendar(start_date, end_date, config['clinic_rules'])
GeneratePediatricCalendar ==
    /\ pc = "start"
    /\ dept = "peds"
    /\ LET r == generate_pediatric_calendar(start_date, end_date, config.clinic_rules)
       IN /\ raised' = r.exc
          /\ calendar' = r.calendar
          /\ pc' = IF r.exc = "none" THEN "setup" ELSE "raised"
    /\ UNCHANGED <<inputs, original_config, min_provider_values, idx, attempt_vars,
                   solver_vars, best_vars, result, attempts>>

\* list(range(initial_min_providers, -1, -1))
AscendingRange(n) == [i \in 1..(n + 1) |-> i - 1]
DescendingRange(n) == [i \in 1..(n + 1) |-> n - i + 1]

ThresholdList(search, initial, cfg) ==
    IF search THEN DescendingRange(initial)
    ELSE <<Get(Get(cfg.clinic_rules, "staffing", EmptyDict), "min_providers_per_session", 3)>>

\* original_config = copy.deepcopy(config); the best_* variables; the list
\* of thresholds
Setup ==
    /\ pc = "setup"
    /\ original_config' = Some(config)
    /\ best_schedule_df' = None
    /\ best_provider_summary_df' = None
    /\ best_call_summary_df' = None
    /\ best_solution_status' = None
    /\ total_solve_time' = 0
    /\ min_provider_values' = ThresholdList(min_staffing_search, initial_min_providers, config)
    /\ idx' = 1
    /\ pc' = "for"
    /\ UNCHANGED <<inputs, raised, calendar, attempt_vars, status, solver_wall_time,
                   solver_values, result, attempts>>

\* the threshold written into clinic_rules.staffing.min_providers_per_session
\* of a configuration
ConfigAt(orig, threshold) ==
    [orig EXCEPT !.clinic_rules =
        Assign(@, "staffing",
               Assign(Get(@, "staffing", EmptyDict), "min_providers_per_session", threshold))]

\* current_config = copy.deepcopy(original_config): what the write of the
\* threshold into current_config leaves in original_config
WriteReachesOriginal(orig, threshold) == ConfigAt(orig, threshold)
deepcopy(orig, threshold) == orig

\* model = cp_model.CpModel() at the head of the loop body
ModelKeptAcrossAttempts(previous) == previous
NewCpModel(previous) == CpModel

\* for min_providers in min_provider_values: current_config, model,
\* shift_vars = create_shift_variables(...), objective_terms = []
ForLoop ==
    /\ pc = "for"
    /\ IF idx <= Len(min_provider_values)
       THEN LET fabric == create_shift_variables(NewCpModel(model),
                              ProviderNames(original_config[1].providers), calendar)
            IN /\ min_providers' = min_provider_values[idx]
               /\ current_config' = Some(ConfigAt(original_config[1], min_provider_values[idx]))
               /\ original_config' = Some(deepcopy(original_config[1], min_provider_values[idx]))
               /\ model' = fabric.model
               /\ shift_vars' = fabric.shift_vars
               /\ objective_terms' = {}
               /\ pc' = Pipeline(dept)[1]
       ELSE /\ pc' = "after"
            /\ UNCHANGED <<attempt_vars, original_config>>
    /\ UNCHANGED <<inputs, raised, calendar, min_provider_values, idx,
                   solver_vars, best_vars, result, attempts>>

AssemblerFrame == UNCHANGED <<inputs, calendar, original_config, current_config,
                              min_provider_values, idx, min_providers, shift_vars,
                              solver_vars, best_vars, result, attempts>>

AddLeaveConstraints ==
    /\ pc = "leave"
    /\ model' = add_leave_constraints(model, shift_vars, leave_df)
    /\ pc' = After(dept, "leave")
    /\ UNCHANGED <<objective_terms, raised>>
    /\ AssemblerFrame

AddInpatientBlockConstraints ==
    /\ pc = "inpatient"
    /\ model' = IF dept = "peds"
                THEN PEDS_add_inpatient_block_constraints(model, shift_vars,
                                                          inpatient_starts_df, inpatient_days_df)
                ELSE IM_add_inpatient_block_constraints(model, shift_vars,
                                                        inpatient_starts_df, inpatient_days_df)
    /\ pc' = After(dept, "inpatient")
    /\ UNCHANGED <<objective_terms, raised>>
    /\ AssemblerFrame

\* pediatrics: call_objective_terms = add_call_constraints(...)
AddCallConstraints ==
    /\ pc = "call"
    /\ LET r == PEDS_add_call_constraints(model, shift_vars, leave_df, inpatient_starts_df,
                                          current_config[1].clinic_rules,
                                          current_config[1].providers)
       IN /\ model' = r.model
          /\ objective_terms' = objective_terms \cup r.objective_terms
          /\ raised' = r.exc
          /\ pc' = IF r.exc = "none" THEN After(dept, "call") ELSE "raised"
    /\ AssemblerFrame

AddMonthlyCallLimits ==
    /\ pc = "monthly_call"
    /\ model' = add_monthly_call_limits(model, shift_vars, calendar, current_config[1].providers)
    /\ pc' = After(dept, "monthly_call")
    /\ UNCHANGED <<objective_terms, raised>>
    /\ AssemblerFrame

AddPostCallAfternoonConstraints ==
    /\ pc = "post_call"
    /\ model' = add_post_call_afternoon_constraints(model, shift_vars, calendar)
    /\ pc' = After(dept, "post_call")
    /\ UNCHANGED <<objective_terms, raised>>
    /\ AssemblerFrame

\* family practice: add_pediatric_call_constraints(model, shift_vars, peds_schedule_df)
AddPediatricCallConstraints ==
    /\ pc = "pediatric_call"
    /\ model' = add_pediatric_call_constraints(model, shift_vars, peds_schedule_df)
    /\ pc' = After(dept, "pediatric_call")
    /\ UNCHANGED <<objective_terms, raised>>
    /\ AssemblerFrame

AddFridayOnlyConstraints ==
    /\ pc = "friday_only"
    /\ model' = add_friday_only_constraints(model, shift_vars, calendar,
                                            current_config[1].providers)
    /\ pc' = After(dept, "friday_only")
    /\ UNCHANGED <<objective_terms, raised>>
    /\ AssemblerFrame

AddClinicCountConstraints ==
    /\ pc = "clinic_count"
    /\ LET r == CASE dept = "im" ->
                       IM_add_clinic_count_constraints(model, shift_vars,
                           current_config[1].providers, inpatient_starts_df)
                  [] dept = "peds" ->
                       PEDS_add_clinic_count_constraints(model, shift_vars,
                           current_config[1].providers, inpatient_starts_df)
                  [] dept = "fp" ->
                       FP_add_clinic_count_constraints(model, shift_vars,
                           current_config[1].providers, inpatient_starts_df, peds_schedule_df)
       IN /\ model' = r.model
          /\ objective_terms' = objective_terms \cup r.objective_terms
    /\ pc' = After(dept, "clinic_count")
    /\ UNCHANGED raised
    /\ AssemblerFrame

AddFractureClinicConstraints ==
    /\ pc = "fracture"
    /\ LET r == add_fracture_clinic_constraints(model, shift_vars, calendar,
                                                current_config[1].providers)
       IN /\ model' = r.model
          /\ objective_terms' = objective_terms \cup r.objective_terms
    /\ pc' = After(dept, "fracture")
    /\ UNCHANGED raised
    /\ AssemblerFrame

\* the penalty list add_rdo_constraints returns is added to the objective in
\* create_peds_schedule only
AddRdoConstraints ==
    /\ pc = "rdo"
    /\ CASE dept = "im" ->
              /\ model' = IM_add_rdo_constraints(model, shift_vars, leave_df, inpatient_days_df,
                                                 current_config[1].clinic_rules,
                                                 current_config[1].providers)
              /\ UNCHANGED objective_terms
         [] dept = "peds" ->
              LET r == PEDS_add_rdo_constraints(model, shift_vars, leave_df, inpatient_days_df,
                                                current_config[1].clinic_rules,
                                                current_config[1].providers)
              IN /\ model' = r.model
                 /\ objective_terms' = objective_terms \cup r.objective_terms
         [] dept = "fp" ->
              /\ model' = FP_add_rdo_constraints(model, shift_vars, leave_df, inpatient_days_df,
                                                 current_config[1].clinic_rules,
                                                 current_config[1].providers,
                                                 peds_schedule_df).model
              /\ UNCHANGED objective_terms
    /\ pc' = After(dept, "rdo")
    /\ UNCHANGED raised
    /\ AssemblerFrame

AddMinMaxStaffingConstraints ==
    /\ pc = "staffing"
    /\ model' = IF dept = "peds"
                THEN PEDS_add_min_max_staffing_constraints(model, shift_vars, calendar,
                                                           current_config[1].clinic_rules)
                ELSE IM_add_min_max_staffing_constraints(model, shift_vars, calendar,
                                                         current_config[1].clinic_rules)
    /\ pc' = After(dept, "staffing")
    /\ UNCHANGED <<objective_terms, raised>>
    /\ AssemblerFrame

\* total_solve_time += solver_wall_time
TimeOfLastAttempt(total, wall) == wall
AddSolveTime(total, wall) == total + wall

\* status = solver.Solve(model); solver_wall_time = solver.wall_time
Solve ==
    /\ pc = "solve"
    /\ LET sols == Solutions(model)
       IN \E o \in SolveOutcomes(sols, objective_terms, model_accepted) :
             /\ status' = o.status
             /\ solver_wall_time' = o.wall
             /\ solver_values' = o.values
             /\ total_solve_time' = AddSolveTime(total_solve_time, o.wall)
             /\ attempts' = Append(attempts,
                               [threshold |-> min_providers, status |-> o.status,
                                wall |-> o.wall, values |-> o.values,
                                feasible |-> sols # {}, model |-> model,
                                objective_terms |-> objective_terms,
                                shift_vars |-> shift_vars])
    /\ pc' = "process"
    /\ UNCHANGED <<inputs, raised, calendar, original_config, min_provider_values, idx,
                   attempt_vars, best_vars, result>>

\* pediatrics indexes the column 'session' of schedule_df and the column
\* 'provider' of provider_summary_df, which a frame built from no row lacks
PedsFrameError(rows, providers) == rows = <<>> \/ providers = <<>>

\* the body of the loop after the solver call
ProcessResult ==
    /\ pc = "process"
    /\ IF status \in SuccessStatuses
       THEN LET names == ProviderNames(current_config[1].providers)
                rows == schedule_data(calendar, 1, names, shift_vars, solver_values)
                summary == create_enhanced_provider_summary(shift_vars, solver_values,
                                                            current_config[1].providers)
            IN IF dept = "peds" /\ PedsFrameError(rows, current_config[1].providers)
               THEN /\ raised' = "KeyError"
                    /\ pc' = "raised"
                    /\ UNCHANGED <<best_vars, idx, result>>
               ELSE /\ best_schedule_df' =
                          Some(IF dept = "peds" THEN NaNCallCounts(rows) ELSE rows)
                    /\ best_provider_summary_df' =
                          Some(IF dept = "peds"
                               THEN providers_with_clinics(summary, current_config[1].providers)
                               ELSE summary)
                    /\ best_call_summary_df' =
                          IF dept = "peds"
                          THEN Some(call_summary(shift_vars, solver_values,
                                                 current_config[1].providers))
                          ELSE None
                    /\ best_solution_status' =
                          Some(SuccessStatus(dept, status, min_providers, rows, solver_values,
                                             objective_terms, total_solve_time))
                    /\ IF min_staffing_search
                       THEN pc' = "after" /\ UNCHANGED idx
                       ELSE pc' = "for" /\ idx' = idx + 1
                    /\ UNCHANGED <<raised, result>>
       ELSE IF ~min_staffing_search
            THEN /\ result' = Some(<<None, None,
                                     DirectFailureStatus(status, min_providers, solver_wall_time,
                                                         total_solve_time)>>)
                 /\ pc' = "done"
                 /\ UNCHANGED <<best_vars, idx, raised>>
            ELSE /\ idx' = idx + 1
                 /\ pc' = "for"
                 /\ UNCHANGED <<best_vars, result, raised>>
    /\ UNCHANGED <<inputs, calendar, original_config, min_provider_values, attempt_vars,
                   solver_vars, attempts>>

\* after the loop: if best_schedule_df is None ... return
ReturnResult ==
    /\ pc = "after"
    /\ result' =
          IF best_schedule_df = None
          THEN IF dept = "peds"
               THEN Some(<<None, None, None,
                           ExhaustedStatus(min_provider_values, total_solve_time)>>)
               ELSE Some(<<None, None,
                           ExhaustedStatus(min_provider_values, total_solve_time)>>)
          ELSE IF dept = "peds"
               THEN Some(<<best_schedule_df, best_provider_summary_df, best_call_summary_df,
                           best_solution_status[1]>>)
               ELSE Some(<<best_schedule_df, best_provider_summary_df,
                           best_solution_status[1]>>)
    /\ pc' = "done"
    /\ UNCHANGED <<inputs, raised, calendar, original_config, min_provider_values, idx,
                   attempt_vars, solver_vars, best_vars, attempts>>

Next ==
    \/ GenerateClinicCalendar
    \/ GeneratePediatricCalendar
    \/ Setup
    \/ ForLoop
    \/ AddLeaveConstraints
    \/ AddInpatientBlockConstraints
    \/ AddCallConstraints
    \/ AddMonthlyCallLimits
    \/ AddPostCallAfternoonConstraints
    \/ AddPediatricCallConstraints
    \/ AddFridayOnlyConstraints
    \/ AddClinicCountConstraints
    \/ AddFractureClinicConstraints
    \/ AddRdoConstraints
    \/ AddMinMaxStaffingConstraints
    \/ Solve
    \/ ProcessResult
    \/ ReturnResult

Spec == Init /\ [][Next]_vars

TypeOK ==
    /\ pc \in SeqToSet(Pipeline("im")) \cup SeqToSet(Pipeline("peds")) \cup SeqToSet(Pipeline("fp"))
              \cup {"start", "setup", "for", "process", "after", "done", "raised"}
    /\ raised \in {"none", "ValueError", "KeyError"}
    /\ model_accepted \in BOOLEAN
    /\ (pc = "raised") <=> (raised # "none")

\* ------------------------------------------------------------------------
\* Properties of the feasibility search controller
\* ------------------------------------------------------------------------
SuccessfulAttempt(i) == attempts[i].status \in SuccessStatuses
Done == pc = "done"
ReturnedSchedule == result[1][1]
ReturnedStatus == result[1][Len(result[1])]
Solved == Done /\ ReturnedSchedule # None
Exhausted == Done /\ ReturnedSchedule = None
ThresholdsAttempted == [i \in 1..Len(attempts) |-> attempts[i].threshold]
WallTimes == [i \in 1..Len(attempts) |-> attempts[i].wall]

\* every row of the returned schedule lists exactly the providers whose
\* variable of the row's slot has value 1 in attempt i, one row per slot
ScheduleBuiltFrom(i) ==
    LET rows == ReturnedSchedule[1]
        sv == attempts[i].shift_vars
        val == attempts[i].values[1]
    IN /\ Len(rows) = TotalSlots(calendar)
       /\ \A k \in 1..Len(rows) :
             /\ rows[k].session \in SeqToSet(CalSessions(calendar, rows[k].date))
             /\ \A p \in DOMAIN sv :
                   (p \in SeqToSet(rows[k].providers))
                       <=> val[sv[p][rows[k].date][rows[k].session]] = 1
             /\ SeqToSet(rows[k].providers) \subseteq DOMAIN sv

\* the per-provider totals returned are those of the values of attempt i
SummariesBuiltFrom(i) ==
    LET sv == attempts[i].shift_vars
        val == attempts[i].values[1]
        Total(p, kind) == Cardinality({d \in DOMAIN sv[p] :
                                          kind \in DOMAIN sv[p][d] /\ val[sv[p][d][kind]] = 1})
    IN /\ \A k \in 1..Len(result[1][2][1]) :
             LET row == result[1][2][1][k]
             IN row.total_AM = Total(row.provider, "morning")
                /\ row.total_PM = Total(row.provider, "afternoon")
       /\ Len(result[1]) = 4 =>
             \A k \in 1..Len(result[1][3][1]) :
                 LET row == result[1][3][1][k]
                 IN row.total_call = Total(row.provider, "call")

\* C1: in search mode the attempts are made at initial_min_providers,
\* initial_min_providers - 1, ... in strictly descending order, none is made
\* after the first OPTIMAL or FEASIBLE one, a returned solution is the one of
\* that attempt, and a run without solution has tried every threshold down
\* to 0.
C1_DescendingSearch ==
    min_staffing_search =>
        /\ \A i \in 1..Len(attempts) : attempts[i].threshold = initial_min_providers - (i - 1)
        /\ \A i \in 1..Len(attempts) : attempts[i].threshold >= 0
        /\ \A i \in 1..(Len(attempts) - 1) : ~SuccessfulAttempt(i)
        /\ Solved => (/\ attempts # <<>>
                      /\ SuccessfulAttempt(Len(attempts))
                      /\ ScheduleBuiltFrom(Len(attempts)))
        /\ Exhausted => Len(attempts) = Max2(0, initial_min_providers + 1)

\* a search that stepped down at least once and returned a solution
C1_Witness ==
    /\ min_staffing_search
    /\ Solved
    /\ Len(attempts) >= 2
    /\ attempts[Len(attempts)].threshold >= 1

\* C2: a schedule is returned only if some attempt ended OPTIMAL or FEASIBLE,
\* the schedule and the summaries are built from the values of exactly that
\* attempt, and when every attempt failed the schedule and every summary
\* returned are None.
C2_ScheduleOnlyFromSuccess ==
    Done =>
        /\ Solved => \E i \in 1..Len(attempts) :
                        /\ SuccessfulAttempt(i)
                        /\ \A j \in 1..Len(attempts) : SuccessfulAttempt(j) => j = i
                        /\ ScheduleBuiltFrom(i)
                        /\ SummariesBuiltFrom(i)
        /\ (\A i \in 1..Len(attempts) : ~SuccessfulAttempt(i)) =>
              \A k \in 1..(Len(result[1]) - 1) : result[1][k] = None

\* a returned schedule with a staffed and an unstaffed slot
C2_Witness ==
    /\ Solved
    /\ \E k \in 1..Len(ReturnedSchedule[1]) : ReturnedSchedule[1][k].providers # <<>>
    /\ \E k \in 1..Len(ReturnedSchedule[1]) :
          Len(ReturnedSchedule[1][k].providers) < Len(config.providers)

\* C3 (as stated): a run without solution reports 'infeasible' only if every
\* failed attempt ended INFEASIBLE, and not when an attempt ended UNKNOWN, in
\* direct mode and in search mode.
C3_AsStated ==
    Exhausted =>
        /\ ReturnedStatus["status"] = "infeasible" =>
              \A i \in 1..Len(attempts) : attempts[i].status = "INFEASIBLE"
        /\ (\E i \in 1..Len(attempts) : attempts[i].status = "UNKNOWN") =>
              ReturnedStatus["status"] # "infeasible"

\* C4 (as stated): a run without solution returns, in both modes, the list of
\* thresholds attempted, in order, and the sum of the wall times of its
\* attempts.
C4_AsStated ==
    Exhausted =>
        /\ "min_providers_tried" \in DOMAIN ReturnedStatus
        /\ ReturnedStatus["min_providers_tried"] = ThresholdsAttempted
        /\ ReturnedStatus["total_solve_time"] = SumSeq(WallTimes)

\* C4 (amended): a run without solution returns the sum of the wall times of
\* its attempts as total_solve_time; in search mode with the list of
\* thresholds attempted, in order, as min_providers_tried; in direct mode
\* with the single threshold attempted as min_providers_per_session and no
\* list.
C4_ExhaustedRecord ==
    Exhausted =>
        /\ ReturnedStatus["total_solve_time"] = SumSeq(WallTimes)
        /\ min_staffing_search =>
              ReturnedStatus["min_providers_tried"] = ThresholdsAttempted
        /\ ~min_staffing_search =>
              /\ "min_providers_tried" \notin DOMAIN ReturnedStatus
              /\ ThresholdsAttempted = <<ReturnedStatus["min_providers_per_session"]>>

\* a search that failed at two thresholds or more, each taking time
C4_Witness ==
    /\ Exhausted
    /\ min_staffing_search
    /\ Len(attempts) >= 2
    /\ \A i \in 1..Len(attempts) : attempts[i].wall > 0

ReportedMinimum == ReturnedStatus["Minimum providers per session"]
ClinicCounts ==
    {ReturnedSchedule[1][k].count
        : k \in {j \in 1..Len(ReturnedSchedule[1]) :
                    ReturnedSchedule[1][j].session \in ClinicKinds}}

\* C5 (as stated): on success 'Minimum providers per session' equals the
\* threshold of the attempt that produced the solution, in the three drivers.
C5_AsStated ==
    Solved => ReportedMinimum = attempts[Len(attempts)].threshold

\* C5 (amended): on success 'Minimum providers per session' equals the
\* threshold of the attempt that produced the solution in internal medicine
\* and family practice; in pediatrics it is the least provider count over the
\* morning and afternoon rows of the returned schedule (0 without such rows),
\* which is at least that threshold when such a row exists.
C5_ReportedMinimum ==
    Solved =>
        IF dept = "peds"
        THEN /\ ClinicCounts = {} => ReportedMinimum = 0
             /\ ClinicCounts # {} =>
                   /\ ReportedMinimum \in ClinicCounts
                   /\ \A c \in ClinicCounts : ReportedMinimum <= c
                   /\ ReportedMinimum >= attempts[Len(attempts)].threshold
        ELSE ReportedMinimum = attempts[Len(attempts)].threshold

\* a pediatric solution found at threshold 0 whose sessions all have a provider
C5_Witness ==
    /\ Solved
    /\ dept = "peds"
    /\ attempts[Len(attempts)].threshold = 0
    /\ ReportedMinimum >= 1

\* a model with the right-hand side of its minimum-staffing constraints set to t
AtThreshold(m, t) ==
    [m EXCEPT !.constraints =
        {IF c.kind = "linear" /\ c.op = ">=" THEN [c EXCEPT !.rhs = t] ELSE c : c \in @}]

AttemptsIndependent ==
    /\ original_config # None => original_config = Some(config)
    /\ (pc \in {"leave"} /\ attempts # <<>>) =>
          /\ model.constraints = {}
          /\ objective_terms = {}
          /\ model.num_vars = Len(config.providers) * TotalSlots(calendar)
    /\ \A i \in 1..Len(attempts) :
          /\ attempts[i].model.num_vars = Len(config.providers) * TotalSlots(calendar)
          /\ \A c \in attempts[i].model.constraints :
                (c.kind = "linear" /\ c.op = ">=") => c.rhs = attempts[i].threshold
          /\ \A j \in (i + 1)..Len(attempts) :
                attempts[i].threshold # attempts[j].threshold
          /\ i < Len(attempts) =>
                /\ AtThreshold(attempts[i].model, 0) = AtThreshold(attempts[i + 1].model, 0)
                /\ attempts[i].objective_terms = attempts[i + 1].objective_terms
                /\ attempts[i].shift_vars = attempts[i + 1].shift_vars

InputsKept ==
    pc # "start" => UNCHANGED <<config, calendar, leave_df, inpatient_starts_df,
                                inpatient_days_df, peds_schedule_df>>

\* C6: every attempt builds its model, fabric and constraints anew from the
\* original configuration and the unchanged inputs: two attempts of a run
\* differ in the minimum-staffing bound only, nothing of an earlier attempt
\* is in a later model, and the original configuration is never changed.
C6_FreshAttempts == []AttemptsIndependent /\ [][InputsKept]_vars

\* the second attempt of a search is about to be assembled
C6_Witness ==
    /\ pc = "leave"
    /\ Len(attempts) = 1
    /\ attempts[1].model.constraints # {}
    /\ attempts[1].objective_terms # {}

\* providers that have a variable for some clinic slot
ClinicProviders ==
    IF \E j \in 1..Len(calendar) : SeqToSet(calendar[j].sessions) \cap ClinicKinds # {}
    THEN SeqToSet(ProviderNames(config.providers)) ELSE {}
ProviderCount == Cardinality(ClinicProviders)
SearchAboveProviderCount ==
    /\ min_staffing_search
    /\ pc \notin {"start", "raised"}
    /\ initial_min_providers > ProviderCount

AttemptsDecided ==
    \A i \in 1..Len(attempts) : attempts[i].status \in {"INFEASIBLE", "OPTIMAL", "FEASIBLE"}

AssemblerLabels ==
    {"leave", "inpatient", "call", "monthly_call", "post_call", "pediatric_call",
     "friday_only", "clinic_count", "fracture", "rdo", "staffing"}

ExpectedKeys ==
    UNION {{<<p, calendar[j].date, s>> : s \in SeqToSet(calendar[j].sessions)}
              : <<p, j>> \in SeqToSet(ProviderNames(config.providers)) \X (1..Len(calendar))}

FabricExact ==
    pc \in AssemblerLabels \cup {"solve", "process"} =>
        /\ FabricKeys(shift_vars) = ExpectedKeys
        /\ DOMAIN shift_vars = SeqToSet(ProviderNames(config.providers))
        /\ \A p \in DOMAIN shift_vars : DOMAIN shift_vars[p] = CalKeys(calendar)
        /\ \A k1, k2 \in FabricKeys(shift_vars) :
              k1 # k2 => shift_vars[k1[1]][k1[2]][k1[3]] # shift_vars[k2[1]][k2[2]][k2[3]]
        /\ {shift_vars[k[1]][k[2]][k[3]] : k \in FabricKeys(shift_vars)} = 1..model.num_vars

AssemblersKeepFabric ==
    pc \in AssemblerLabels =>
        /\ FabricKeys(shift_vars') = FabricKeys(shift_vars)
        /\ shift_vars' = shift_vars
        /\ model'.num_vars = model.num_vars

\* C10: after create_shift_variables the fabric holds one Boolean variable,
\* different from every other, for each (provider, date, session) with the
\* provider in the provider set and the session in calendar[date], and for
\* no other triple; no constraint assembler adds or removes a key or a
\* schedule variable.
C10_FabricKeys == []FabricExact /\ [][AssemblersKeepFabric]_vars

\* a fabric of several providers and several slots, all assemblers applied
C10_Witness ==
    /\ pc = "solve"
    /\ Cardinality(DOMAIN shift_vars) >= 2
    /\ Cardinality(FabricKeys(shift_vars)) >= 4
    /\ model.constraints # {}

\* ------------------------------------------------------------------------
\* The calendar builders on their own: every date range of CalDays days and
\* a family of rules documents
\* ------------------------------------------------------------------------
CalDays == 7

CalSessionMaps ==
    {BaseRules.clinic_sessions,
     [Monday |-> <<"morning", "afternoon">>, Tuesday |-> <<>>, Saturday |-> <<"morning">>]}

CalRules ==
    {Without([BaseRules EXCEPT !.clinic_days = cd, !.clinic_sessions = cs,
                               !.call_days = call, !.holiday_dates = hol], missing)
        : <<cd, cs, call, hol, missing>> \in
            {Weekdays, {"Monday", "Tuesday", "Wednesday", "Saturday"}}
            \X CalSessionMaps
            \X {{}, {"Sunday", "Monday", "Tuesday"}}
            \X {{}, {1}, {0, 6}}
            \X {"none", "clinic_days", "clinic_sessions", "call_days", "holiday_dates"}}

InitCal ==
    /\ dept \in Depts
    /\ start_date \in 0..CalDays
    /\ end_date \in 0..CalDays
    /\ config \in {[providers |-> Roster, clinic_rules |-> r] : r \in CalRules}
    /\ leave_df = {}
    /\ inpatient_starts_df = {}
    /\ inpatient_days_df = {}
    /\ peds_schedule_df = None
    /\ model_accepted = TRUE
    /\ min_staffing_search = TRUE
    /\ initial_min_providers = 0
    /\ ControlAtRest

NextCal == GenerateClinicCalendar \/ GeneratePediatricCalendar

SpecCal == InitCal /\ [][NextCal]_vars

\* the builder has been called
CalendarBuilt == pc \in {"setup", "raised"}
CalendarReturned == pc = "setup"

RequiredKeys == IF dept = "peds" THEN {"clinic_days", "clinic_sessions", "call_days"}
                ELSE {"clinic_days", "clinic_sessions"}
KeysPresent == RequiredKeys \subseteq DOMAIN config.clinic_rules

HolidaySet == Get(config.clinic_rules, "holiday_dates", {})
InClinicDays(d) == strftimeA(d) \in config.clinic_rules["clinic_days"]
HasClinicSessions(d) == Get(config.clinic_rules["clinic_sessions"], strftimeA(d), <<>>) # <<>>
InCallDays(d) == dept = "peds" /\ strftimeA(d) \in config.clinic_rules["call_days"]

Ascending(cal) == \A i \in 1..(Len(cal) - 1) : cal[i].date < cal[i + 1].date

\* C8 (as stated): a date of [start_date, end_date] is a key of the returned
\* calendar iff its weekday is a clinic day or (pediatrics) a call day and the
\* date is not a holiday; no key lies outside the range; keys ascend.
C8_AsStated ==
    CalendarReturned =>
        /\ \A d \in start_date..end_date :
              d \in CalKeys(calendar) <=> ((InClinicDays(d) \/ InCallDays(d)) /\ d \notin HolidaySet)
        /\ CalKeys(calendar) \subseteq start_date..end_date
        /\ Ascending(calendar)

\* C8 (amended): a date of [start_date, end_date] is a key of the returned
\* calendar iff it is not a holiday and its weekday is a clinic day with a
\* non-empty session list or (pediatrics) a call day; no key lies outside the
\* range; keys are inserted in ascending date order.
C8_CalendarKeys ==
    CalendarReturned =>
        /\ \A d \in start_date..end_date :
              d \in CalKeys(calendar) <=>
                  (((InClinicDays(d) /\ HasClinicSessions(d)) \/ InCallDays(d))
                   /\ d \notin HolidaySet)
        /\ CalKeys(calendar) \subseteq start_date..end_date
        /\ Ascending(calendar)

\* a calendar returned for a range with a holiday on a clinic day, a clinic
\* day without sessions and at least two keys
C8_Witness ==
    /\ CalendarReturned
    /\ Len(calendar) >= 2
    /\ \E d \in start_date..end_date : d \in HolidaySet /\ InClinicDays(d) /\ HasClinicSessions(d)
    /\ \E d \in start_date..end_date : InClinicDays(d) /\ ~HasClinicSessions(d) /\ d \notin HolidaySet

\* C9 (as stated): range error whenever start_date > end_date, configuration
\* error whenever a required key is absent, no calendar in both cases, no
\* range error when start_date = end_date.
C9_AsStated ==
    CalendarBuilt =>
        /\ (start_date > end_date) => raised = "ValueError"
        /\ ~KeysPresent => raised = "KeyError"
        /\ raised # "none" => (pc = "raised" /\ calendar = <<>>)
        /\ (start_date = end_date) => raised # "ValueError"

\* C9 (amended): range error whenever start_date > end_date; configuration
\* error whenever a required key is absent and start_date <= end_date (the
\* range is checked first); no calendar is returned in both cases; no range
\* error when start_date = end_date.
C9_BuilderErrors ==
    CalendarBuilt =>
        /\ (start_date > end_date) => raised = "ValueError"
        /\ (~KeysPresent /\ start_date <= end_date) => raised = "KeyError"
        /\ raised # "none" => (pc = "raised" /\ calendar = <<>>)
        /\ (start_date = end_date) => raised # "ValueError"
        /\ (KeysPresent /\ start_date <= end_date) => raised = "none"

\* the pediatric builder called on a one-day range without call_days
C9_Witness ==
    /\ CalendarBuilt
    /\ dept = "peds"
    /\ start_date = end_date
    /\ "call_days" \notin DOMAIN config.clinic_rules
    /\ raised = "KeyError"

\* ------------------------------------------------------------------------
\* The department models: runs of the three drivers on chosen inputs
\* ------------------------------------------------------------------------
Run(d, first, last, providers, rules, leave, inpatient, peds, search, initial) ==
    [dept |-> d, start_date |-> first, end_date |-> last,
     config |-> [providers |-> providers, clinic_rules |-> rules],
     leave_df |-> FilterProviders(leave, providers),
     inpatient_starts_df |-> FilterProviders(inpatient, providers),
     peds_schedule_df |-> peds, min_staffing_search |-> search,
     initial_min_providers |-> initial]

\* two providers without a preferred day off
PlainRoster ==
    <<[name |-> "A", role |-> "MD", max_clinics_per_week |-> 2],
      [name |-> "C", role |-> "NP", max_clinics_per_week |-> 3]>>

\* a Monday and a Tuesday with and without leave, in each department
LeaveRuns ==
    {Run(x[1], 0, 1, x[2], BaseRules, x[3], {},
         IF x[1] = "fp" THEN x[4] ELSE None, x[5], 1)
        : x \in Depts \X {Roster, PlainRoster}
                \X (LeaveChoices \cup {{[provider |-> "C", date |-> 1]}})
                \X PedsScheduleChoices \X BOOLEAN}

NoRdoRules == Without(BaseRules, "random_day_off")
OnePerSessionRules == [NoRdoRules EXCEPT !.staffing.max_providers_per_session = 1]

\* a pediatric Monday searched from threshold 2; a department that admits
\* one provider per session; a department without providers
StaffingRuns ==
    {Run("peds", 0, 0, Roster, NoRdoRules, {}, {}, None, TRUE, 2)}
    \cup {Run(dp, 0, 1, PlainRoster, OnePerSessionRules, {}, {}, None, FALSE, 1)
             : dp \in Depts}
    \cup {Run(dp, 0, 1, <<>>, BaseRules, {}, {}, None, FALSE, 1) : dp \in Depts}

HolidayRules == [BaseRules EXCEPT !.holiday_dates = {1}]

\* Monday to Wednesday, with and without a holiday on the Tuesday
RdoRuns ==
    {Run(x[1], 0, 2, x[2], x[3], {}, {}, IF x[1] = "fp" THEN x[4] ELSE None, TRUE, 1)
        : x \in Depts \X {Roster, PlainRoster} \X {BaseRules, HolidayRules}
                \X PedsScheduleChoices}

\* pediatric call from Thursday to Sunday, and from Sunday to Tuesday
CallRuns ==
    {Run("peds", 3, 6, Roster,
         [NoRdoRules EXCEPT !.call_days = {"Thursday", "Friday", "Saturday", "Sunday"}],
         {}, {}, None, FALSE, 1),
     Run("peds", 6, 8, Roster,
         [NoRdoRules EXCEPT !.call_days = {"Sunday", "Monday", "Tuesday"}],
         {}, {}, None, FALSE, 1)}

\* a Friday holiday between a Thursday and a Sunday with call, with leave
\* on neither, on one or on both of the two dates; a Monday holiday after a
\* Sunday with call
HolidayRuns ==
    {Run("peds", 3, 6, Roster,
         [NoRdoRules EXCEPT !.call_days = {"Thursday", "Sunday"}, !.holiday_dates = {4}],
         l, {}, None, FALSE, 1)
        : l \in {{}, {[provider |-> "B", date |-> 7]},
                 {[provider |-> "A", date |-> 3], [provider |-> "B", date |-> 6]}}}
    \cup {Run("peds", 6, 8, Roster, [NoRdoRules EXCEPT !.holiday_dates = {7}],
              {}, {}, None, FALSE, 1)}

\* four and five weeks of Monday call, one provider with a cap on calls
CappedRoster(cap) ==
    <<[name |-> "A", role |-> "MD", max_clinics_per_week |-> 2, max_calls_per_month |-> cap],
      [name |-> "B", role |-> "NP", max_clinics_per_week |-> 3]>>

MondayCallRules == [NoRdoRules EXCEPT !.clinic_days = {}, !.call_days = {"Monday"}]

CapRuns ==
    {Run("peds", 0, x[1], CappedRoster(x[2]), MondayCallRules, {}, {}, None, FALSE, 1)
        : x \in {27, 28} \X {0, 1}}

\* the week after a rotation of provider A that started on day -6, and the
\* week of Monday 2024-12-30 (day 7) to Thursday 2025-01-02 (day 10)
WeekRuns ==
    {Run(x[1], 0, 1, PlainRoster, BaseRules, {}, x[2], None, TRUE, 1)
        : x \in {"im", "fp"} \X {{}, {[provider |-> "A", start_date |-> -6]}}}
    \cup {Run(dp, 7, 10, PlainRoster, BaseRules, {}, {}, None, TRUE, 1) : dp \in {"im", "fp"}}

ModelRuns ==
    LeaveRuns \cup StaffingRuns \cup RdoRuns \cup CallRuns \cup HolidayRuns \cup CapRuns
    \cup WeekRuns

InitRuns(runs) ==
    /\ \E r \in runs :
          /\ dept = r.dept
          /\ start_date = r.start_date
          /\ end_date = r.end_date
          /\ config = r.config
          /\ leave_df = r.leave_df
          /\ inpatient_starts_df = r.inpatient_starts_df
          /\ inpatient_days_df = ExpandInpatient(r.inpatient_starts_df, 7)
          /\ peds_schedule_df = r.peds_schedule_df
          /\ min_staffing_search = r.min_staffing_search
          /\ initial_min_providers = r.initial_min_providers
    /\ model_accepted = TRUE
    /\ ControlAtRest

InitModels == InitRuns(ModelRuns)

SpecModels == InitModels /\ [][Next]_vars

\* ------------------------------------------------------------------------
\* The pediatric model on inpatient frames with the columns that
\* add_call_constraints documents: provider, start_date, inpatient_type.
\* (load_inpatient returns the first two only; the last run below has such
\* a frame.)
\* ------------------------------------------------------------------------
FractureRoster ==
    <<[name |-> "A", role |-> "MD", max_clinics_per_week |-> 2, fracture_clinic |-> TRUE],
      [name |-> "B", role |-> "NP", max_clinics_per_week |-> 3]>>

WeekendCallRules == [NoRdoRules EXCEPT !.call_days = {"Thursday", "Friday", "Saturday", "Sunday"}]

\* a rotation that starts on Tuesday, day 1
Rotation(p, type) == [provider |-> p, start_date |-> 1, inpatient_type |-> type]

PediatricRuns ==
    {Run("peds", 3, 6, Roster, WeekendCallRules, {}, i, None, FALSE, 1)
        : i \in {{}, {Rotation("A", "peds")}, {Rotation("A", "adult")},
                 {Rotation("B", "peds")}, {Rotation("B", "adult")}}}
    \cup {Run("peds", 0, 1, r, [NoRdoRules EXCEPT !.call_days = {"Monday", "Tuesday"}],
              {}, {}, None, TRUE, 1) : r \in {Roster, FractureRoster}}
    \cup {Run("peds", 0, 1, Roster, NoRdoRules, l, {}, None, TRUE, 1)
             : l \in {{}, {[provider |-> "A", date |-> 0]}, {[provider |-> "B", date |-> 1]}}}
    \cup {Run("peds", 3, 6, Roster, WeekendCallRules, {}, {[provider |-> "A", start_date |-> 1]},
              None, FALSE, 1)}

InitPediatric == InitRuns(PediatricRuns)

NextPediatric ==
    \/ GeneratePediatricCalendar
    \/ Setup
    \/ ForLoop
    \/ AddLeaveConstraints
    \/ AddInpatientBlockConstraints
    \/ AddCallConstraints
    \/ AddMonthlyCallLimits
    \/ AddPostCallAfternoonConstraints
    \/ AddClinicCountConstraints
    \/ AddRdoConstraints
    \/ AddMinMaxStaffingConstraints
    \/ Solve
    \/ ProcessResult
    \/ ReturnResult

SpecPediatric == InitPediatric /\ [][NextPediatric]_vars

\* the attempts whose solution the driver returned
Returned == IF Solved THEN {i \in 1..Len(attempts) : SuccessfulAttempt(i)} ELSE {}

\* provider p works session s of date d in the solution of attempt i
Assigned(i, p, d, s) ==
    /\ p \in DOMAIN attempts[i].shift_vars
    /\ s \in DOMAIN FabricGet(attempts[i].shift_vars, p, d)
    /\ attempts[i].values[1][attempts[i].shift_vars[p][d][s]] = 1

SessionKinds == {"morning", "afternoon", "call"}

\* C11: in every solution that a department model returns, a provider with a
\* leave record on a date works no session of that date: morning, afternoon
\* or call.
C11_LeaveRespected ==
    \A i \in Returned : \A row \in leave_df : \A s \in SessionKinds :
        ~Assigned(i, row.provider, row.date, s)

\* a pediatric solution in which a provider is on leave on a date with a
\* clinic session and a call session, both worked by somebody else
C11_Witness ==
    /\ Solved
    /\ dept = "peds"
    /\ \E i \in Returned : \E row \in leave_df : \E q \in DOMAIN attempts[i].shift_vars :
          /\ {"morning", "call"} \subseteq DOMAIN FabricGet(attempts[i].shift_vars,
                                                             row.provider, row.date)
          /\ Assigned(i, q, row.date, "morning")
          /\ Assigned(i, q, row.date, "call")

\* the slots of the calendar and the staffing of a slot in a solution
CalendarSlots == UNION {{<<calendar[j].date, calendar[j].sessions[k]>>
                           : k \in 1..Len(calendar[j].sessions)} : j \in 1..Len(calendar)}
AssignedTo(i, d, s) == {p \in DOMAIN attempts[i].shift_vars : Assigned(i, p, d, s)}
MaxPerSession ==
    Get(Get(config.clinic_rules, "staffing", EmptyDict), "max_providers_per_session", 5)
StaffedWithin(i, slot) ==
    /\ Cardinality(AssignedTo(i, slot[1], slot[2])) >= attempts[i].threshold
    /\ Cardinality(AssignedTo(i, slot[1], slot[2])) <= MaxPerSession

\* C12 as stated: in every solution returned at threshold min, every slot of
\* the calendar, the pediatric call slots included, has at least min and at
\* most max_providers_per_session providers assigned.
C12_AsStated ==
    \A i \in Returned : \A slot \in CalendarSlots : StaffedWithin(i, slot)

\* C12: in every solution returned at threshold min by a department that has
\* a provider, every morning and afternoon slot of the calendar has at least
\* min and at most max_providers_per_session providers assigned.
C12_StaffingBounds ==
    \A i \in Returned : \A slot \in CalendarSlots :
        (config.providers # <<>> /\ slot[2] \in ClinicKinds) => StaffedWithin(i, slot)

\* a solution whose clinic slots all hold exactly max_providers_per_session
\* providers, fewer than the department has
C12_Witness ==
    /\ Solved
    /\ MaxPerSession < Len(config.providers)
    /\ \E i \in Returned : \A slot \in CalendarSlots :
          slot[2] \in ClinicKinds
              => Cardinality(AssignedTo(i, slot[1], slot[2])) = MaxPerSession

\* the providers who get a day off, the weeks of the department and the
\* weeks in which a provider is not blocked
RdoProviders ==
    IF dept = "peds" THEN providers_needing_rdo(config.providers)
    ELSE SeqToSet(ProviderNames(config.providers))
WeekStart(d) == IF dept = "peds" THEN get_schedule_week_key(d) ELSE d - Weekday(d)
\* the key under which the assembler of the department groups the dates of
\* a week for the day off
DayOffWeek(d) == IF dept = "peds" THEN get_schedule_week_key(d) ELSE get_week_key(d)
Unblocked(Week(_), p, w) ==
    /\ ~ \E r \in leave_df : r.provider = p /\ Week(r.date) = w
    /\ ~ \E r \in inpatient_days_df : r.provider = p /\ Week(r.date) = w
    /\ ProviderInfo(config.providers, p).role \in {"MD", "DO"}
          => ~ \E h \in Get(config.clinic_rules, "holiday_dates", {}) : Week(h) = w
EligibleDates(Week(_), w) ==
    {d \in CalKeys(calendar) :
        /\ Week(d) = w
        /\ strftimeA(d) \in Get(Get(config.clinic_rules, "random_day_off", EmptyDict),
                                 "eligible_days", {})}
DayOff(i, p, d) == \A s \in SessionKinds : ~Assigned(i, p, d, s)
DaysOff(i, p, dates) == {d \in dates : DayOff(i, p, d)}

\* the dates among which the day off of provider p in week w is chosen
PreferredDates(Week(_), p, w) ==
    {d \in EligibleDates(Week, w) :
        Some(strftimeA(d)) = Get(ProviderInfo(config.providers, p), "rdo_preference", None)}
PediatricDates(p) ==
    IF dept = "fp"
    THEN {r.date : r \in {x \in PedsRows(peds_schedule_df) : p \in SeqToSet(x.providers)}}
    ELSE {}
CandidateDates(Week(_), p, w) ==
    (IF PreferredDates(Week, p, w) # {} THEN PreferredDates(Week, p, w) ELSE EligibleDates(Week, w))
    \ PediatricDates(p)

CallDates == {d \in CalKeys(calendar) : "call" \in SeqToSet(CalSessions(calendar, d))}
OnCall(i, d) == AssignedTo(i, d, "call")
PairingWeek(d) ==
    \E h \in Get(config.clinic_rules, "holiday_dates", {}) :
        get_schedule_week_key(d) - get_schedule_week_key(h) \in {0, 7}
ConsecutiveCallDates ==
    {d \in CallDates : d + 1 \in CallDates /\ ~PairingWeek(d) /\ ~PairingWeek(d + 1)}

\* C14 as stated: in every pediatric solution, no provider is on call on
\* both dates of a pair of consecutive call dates outside the holiday
\* pairing weeks, whatever the weekdays of the pair.
C14_AsStated ==
    \A i \in Returned : \A d \in ConsecutiveCallDates : OnCall(i, d) \cap OnCall(i, d + 1) = {}

\* C14: in every pediatric solution, no provider is on call on both dates
\* of a pair of consecutive call dates outside the holiday pairing weeks
\* whose first date is a Sunday, Monday, Tuesday or Wednesday.
C14_NoBackToBackCall ==
    \A i \in Returned : \A d \in ConsecutiveCallDates :
        strftimeA(d) \in {"Sunday", "Monday", "Tuesday", "Wednesday"}
            => OnCall(i, d) \cap OnCall(i, d + 1) = {}

\* a pediatric solution with call on a Sunday, the Monday and the Tuesday:
\* the provider of the Monday takes neither the Sunday nor the Tuesday
C14_Witness ==
    /\ Solved
    /\ dept = "peds"
    /\ {6, 7, 8} \subseteq ConsecutiveCallDates \cup {8}
    /\ {6, 7, 8} \subseteq CallDates
    /\ \E i \in Returned : \E p \in OnCall(i, 7) : OnCall(i, 6) = OnCall(i, 8) /\ p \notin OnCall(i, 6)

\* C15: in every pediatric solution, every date of the calendar with a call
\* session has exactly one provider on call.
C15_OneOnCall ==
    \A i \in Returned : \A d \in CallDates : dept = "peds" => Cardinality(OnCall(i, d)) = 1

\* a pediatric solution with four call dates shared by two providers
C15_Witness ==
    /\ Solved
    /\ dept = "peds"
    /\ Cardinality(CallDates) = 4
    /\ \E i \in Returned : Cardinality(UNION {OnCall(i, d) : d \in CallDates}) = 2

\* the holidays of the rules, by weekday, and the providers whom leave
\* keeps from call on a date: on leave on the date or on the day after it
Holidays == Get(config.clinic_rules, "holiday_dates", {})
EarlyWeekHolidays == {h \in Holidays : strftimeA(h) \in MonThu}
FridayHolidays == {h \in Holidays : strftimeA(h) = "Friday"}
LeaveBlocked(d) == {r.provider : r \in {x \in leave_df : x.date = d \/ x.date = d + 1}}

InpatientDates(p) == {r.date : r \in {x \in inpatient_days_df : x.provider = p}}
LeaveDates(p) == {r.date : r \in {x \in leave_df : x.provider = p}}
CallProviders(i) == DOMAIN attempts[i].shift_vars

PediatricWeekend(p) ==
    UNION {{r.start_date + 3, r.start_date + 4}
              : r \in {x \in inpatient_starts_df :
                          x.provider = p /\ x.inpatient_type = "peds"}}

CappedProviders ==
    {k \in 1..Len(config.providers) : "max_calls_per_month" \in DOMAIN config.providers[k]}
CallsInWindow(i, p, first) ==
    Cardinality({d \in CallDates : first <= d /\ d <= first + 27 /\ p \in OnCall(i, d)})

\* C18 as stated: in every pediatric solution, for every provider with a
\* configured max_calls_per_month, 0 included, and every window of 28
\* consecutive days inside the scheduled range, the provider's calls in the
\* window do not exceed the cap.
C18_AsStated ==
    \A i \in Returned : \A k \in CappedProviders : \A first \in start_date..(end_date - 27) :
        CallsInWindow(i, config.providers[k].name, first)
            <= config.providers[k].max_calls_per_month

\* the call dates whose next day has an afternoon session
CallBeforeAfternoon ==
    {d \in CallDates : d + 1 \in CalKeys(calendar)
                       /\ "afternoon" \in SeqToSet(CalSessions(calendar, d + 1))}

\* C19: in every pediatric solution, a provider on call on a date whose
\* next day has an afternoon session does not work that afternoon session.
C19_PostCallAfternoon ==
    \A i \in Returned : \A d \in CallBeforeAfternoon : \A p \in OnCall(i, d) :
        ~Assigned(i, p, d + 1, "afternoon")

\* a pediatric solution: one provider on call on the Monday, the other one
\* in the afternoon clinic of the Tuesday
C19_Witness ==
    /\ Solved
    /\ dept = "peds"
    /\ \E i \in Returned : \E d \in CallBeforeAfternoon : \E p, q \in CallProviders(i) :
          /\ p # q
          /\ OnCall(i, d) = {p}
          /\ AssignedTo(i, d + 1, "afternoon") = {q}

\* the clinic sessions of a provider in the calendar week that starts on w,
\* the weeks that follow a rotation of the provider, and the provider's
\* pediatric clinic sessions of the week
ClinicSessionsInWeek(i, p, w) ==
    Cardinality({x \in CalendarSlots :
                    WeekStart(x[1]) = w /\ x[2] \in ClinicKinds /\ Assigned(i, p, x[1], x[2])})
FollowsRotation(p, w) ==
    \E r \in inpatient_starts_df : r.provider = p /\ WeekStart(r.start_date + 7) = w
PediatricSessionsInWeek(p, w) ==
    IF dept = "fp"
    THEN SumOver({r \in PedsRows(peds_schedule_df) :
                     r.session \in ClinicKinds /\ WeekStart(r.date) = w},
                 [r \in PedsRows(peds_schedule_df) |->
                     Cardinality({j \in 1..Len(r.providers) : r.providers[j] = p})])
    ELSE 0
WeeklyCap(k, w) ==
    Max2(0, config.providers[k].max_clinics_per_week
            - (IF FollowsRotation(config.providers[k].name, w) THEN 2 ELSE 0)
            - PediatricSessionsInWeek(config.providers[k].name, w))

\* C20 as stated: in every solution, for every provider and calendar week,
\* the provider's clinic sessions of the week are at most max(0, M - r - s):
\* M the provider's max_clinics_per_week, r = 2 in the week that follows one
\* of the provider's rotations, s the provider's pediatric clinic sessions
\* of the week in family practice.
C20_AsStated ==
    \A i \in Returned : \A k \in 1..Len(config.providers) :
        \A w \in {WeekStart(d) : d \in CalKeys(calendar)} :
            ClinicSessionsInWeek(i, config.providers[k].name, w) <= WeeklyCap(k, w)

\* ------------------------------------------------------------------------
\* The assemblers one by one: runs with inpatient rotations around a Monday
\* and a Tuesday
\* ------------------------------------------------------------------------
ReliefRules ==
    Assign([NoRdoRules EXCEPT !.call_days = {"Monday", "Tuesday"}], "inpatient_schedule",
           [pre_inpatient_rdo |-> "Monday", post_inpatient_rdo |-> "Friday",
            inpatient_length |-> 7])

\* a rotation of provider A that starts on the Tuesday (day 1), on the
\* Wednesday (day 2), nine days before the Tuesday, or on the Monday
ReliefStarts == {1, 2, -9, 0}

ReliefRuns ==
    {Run(x[1], 0, 1, PlainRoster, ReliefRules, {}, {[provider |-> "A", start_date |-> x[2]]},
         None, TRUE, 1)
        : x \in Depts \X ReliefStarts}

\* Monday to Wednesday in every department, with the pediatric schedule in
\* family practice: the day after a call is a candidate day off
PenaltyRuns ==
    {Run(dp, 0, 2, Roster, BaseRules, {}, {},
         IF dp = "fp" THEN CHOOSE x \in PedsScheduleChoices : x # None ELSE None, TRUE, 1)
        : dp \in Depts}

\* pediatric call on Sunday, Monday and Tuesday from Sunday 2024-12-29 (day
\* 6) to Tuesday 2024-12-31, with and without a holiday on the Monday
HolidayWeekRuns ==
    {Run("peds", 6, 8, Roster,
         [NoRdoRules EXCEPT !.call_days = {"Sunday", "Monday", "Tuesday"}, !.holiday_dates = h],
         {}, {}, None, FALSE, 1)
        : h \in {{}, {7}}}

\* pediatrics from a Monday to a Wednesday with call on the Monday and the
\* Tuesday; the Monday is a clinic day or a day with call only
DayOffRuns ==
    {Run("peds", 0, 2, PlainRoster,
         [BaseRules EXCEPT !.call_days = {"Monday", "Tuesday"}, !.clinic_days = cd],
         {}, {}, None, TRUE, 1)
        : cd \in {Weekdays, Weekdays \ {"Monday"}}}

AssemblyRuns == ReliefRuns \cup PenaltyRuns \cup HolidayWeekRuns \cup DayOffRuns

InitAssembly == InitRuns(AssemblyRuns)

SpecAssembly == InitAssembly /\ [][Next]_vars

\* the constraints that add_inpatient_block_constraints posts in the
\* attempt that is being assembled
InpatientBlockPosted ==
    (IF dept = "peds"
     THEN PEDS_add_inpatient_block_constraints(CpModel, shift_vars, inpatient_starts_df,
                                               inpatient_days_df)
     ELSE IM_add_inpatient_block_constraints(CpModel, shift_vars, inpatient_starts_df,
                                             inpatient_days_df)).constraints
InpatientBlockActed == pc = After(dept, "inpatient") /\ InpatientBlockPosted \subseteq model.constraints
ForcedByInpatientBlock(p, d, s) == Linear({shift_vars[p][d][s]}, "==", 0) \in InpatientBlockPosted
ReliefWeekday(key) == Get(Get(config.clinic_rules, "inpatient_schedule", EmptyDict), key, None)
OnReliefDate(p, d) ==
    \E row \in inpatient_starts_df :
        /\ row.provider = p
        /\ \/ d = row.start_date - 1 /\ strftimeA(d) = ReliefWeekday("pre_inpatient_rdo")
           \/ d = row.start_date + 10 /\ strftimeA(d) = ReliefWeekday("post_inpatient_rdo")

ReliefDates(p) ==
    UNION {{row.start_date - 1, row.start_date + 10}
              : row \in {r \in inpatient_starts_df : r.provider = p}}

PostCallPenalty(c) ==
    c.kind = "rdo" /\ \E day \in c.days : day.ycall # {} \/ Get(day, "after_call", FALSE)
PenaltyTerms(m) ==
    {c \in m.constraints : c.kind \in {"soft_min", "soft_max", "fracture"} \/ PostCallPenalty(c)}
ReadyToSolve == pc = "solve"

\* C22 as stated: every penalty term created by a soft constraint is part
\* of the objective that the solver minimises, with weight 100 per
\* violation unit, in every department driver that applies the constraint.
C22_AsStated ==
    ReadyToSolve => \A t \in PenaltyTerms(model) : t \in objective_terms /\ Weight(t) = 100

\* ------------------------------------------------------------------------
\* The internal medicine model with a single provider on the two weeks from
\* Monday 2025-01-06 (day 14) to Sunday 2025-01-19 (day 27); every
\* constraint of this model spans one week or one slot, so the weeks are
\* scheduled independently of each other
\* ------------------------------------------------------------------------
SingleProvider == <<[name |-> "A", role |-> "MD", max_clinics_per_week |-> 4]>>
MorningRules ==
    [BaseRules EXCEPT !.clinic_sessions = [dn \in Weekdays |-> <<"morning">>]]

\* searched from threshold 0 or 1, or solved at the configured threshold 1
ScenarioRuns ==
    {Run("im", 14, 27, SingleProvider, MorningRules,
         {}, {}, None, x[1], x[2])
        : x \in {<<TRUE, 0>>, <<TRUE, 1>>, <<FALSE, 1>>}}

InitScenario == InitRuns(ScenarioRuns)

NextInternalMedicine ==
    \/ GenerateClinicCalendar
    \/ Setup
    \/ ForLoop
    \/ AddLeaveConstraints
    \/ AddInpatientBlockConstraints
    \/ AddClinicCountConstraints
    \/ AddRdoConstraints
    \/ AddMinMaxStaffingConstraints
    \/ Solve
    \/ ProcessResult
    \/ ReturnResult

SpecScenario == InitScenario /\ [][NextInternalMedicine]_vars

ScenarioWeeks == {WeekStart(d) : d \in start_date..end_date}
ReturnedObjective(i) == ObjectiveValue(attempts[i].values[1], attempts[i].objective_terms)
FullDaysOff(i, p, w) == {d \in CalKeys(calendar) : WeekStart(d) = w /\ DayOff(i, p, d)}

CallAssembled == dept = "peds" /\ pc = After("peds", "call")
PenalisedCallWeeks ==
    {x \in (DOMAIN shift_vars) \X call_week_keys(shift_vars) :
        Cardinality(provider_call_vars(shift_vars, x[1], x[2])) >= 2}
MultipleCallPenalty(x) == SoftMax(<<x[1], x[2]>>, provider_call_vars(shift_vars, x[1], x[2]))
WeekWithHoliday(wk) == \E h \in Holidays : get_schedule_week_key(h) = wk

\* C24 as stated: on the calendar of generate_pediatric_calendar, the
\* penalty for more than one call of a provider in a Sunday-Thursday call
\* week is in the objective for every week without a holiday and for no
\* week that contains a holiday.
C24_AsStated ==
    CallAssembled =>
        \A x \in PenalisedCallWeeks :
            /\ MultipleCallPenalty(x) \in model.constraints
            /\ MultipleCallPenalty(x) \in objective_terms <=> ~WeekWithHoliday(x[2])

\* ------------------------------------------------------------------------
\* The pediatric model with a rotation of type 'peds' of provider A that
\* starts on Tuesday, day 1: call from Thursday (day 3) to Sunday (day 6),
\* without leave, with leave of A on day 4, 5 or 6, or with leave of B on
\* day 5
\* ------------------------------------------------------------------------
PinnedRuns ==
    {Run("peds", 3, 6, Roster, WeekendCallRules, l, {Rotation("A", "peds")}, None, FALSE, 1)
        : l \in {{}, {[provider |-> "B", date |-> 5]}}
                \cup {{[provider |-> "A", date |-> d]} : d \in {4, 5, 6}}}

InitPinned == InitRuns(PinnedRuns)

SpecPinned == InitPinned /\ [][NextPediatric]_vars

\* the rotations of type 'peds' and the dates on which their provider is
\* pinned on call
PediatricRotations == {r \in inpatient_starts_df : r.inpatient_type = "peds"}
PinnedDates(r) == {r.start_date + 3, r.start_date + 4} \cap CallDates
LeaveNearPin(r) ==
    \E l \in leave_df : l.provider = r.provider /\ l.date - r.start_date \in {3, 4, 5}
Solvable == \A i \in 1..Len(attempts) : attempts[i].feasible

\* C25 as stated: for every rotation of type 'peds' starting on S, every
\* solution has the rotation's provider on call on S+3 and S+4 when those
\* dates have a call session, and leave of that provider on S+3, S+4 or S+5
\* neither forces a pinned call variable to 0 nor makes the model
\* infeasible.
C25_AsStated ==
    /\ \A i \in Returned : \A r \in PediatricRotations : \A d \in PinnedDates(r) :
          OnCall(i, d) = {r.provider}
    /\ \A r \in PediatricRotations : LeaveNearPin(r) => Solvable

\* the day-off indicators of the weeks of a returned pediatric solution:
\* every value of the is_rdo variables that the constraints of
\* add_rdo_constraints admit together with the returned schedule
DayOffWeeks(i) == {c \in attempts[i].model.constraints : c.kind = "rdo"}
Indicators(i, c) == RdoChoices(attempts[i].values[1], c)
HasClinicSession(d) == SeqToSet(CalSessions(calendar, d)) \cap ClinicKinds # {}

\* C26 as stated: in pediatrics, for every provider and eligible date with a
\* day-off indicator, the indicator is true if and only if the provider has
\* no clinic session and no call session on that date; no chosen day off is
\* a date on which the provider is on call.
C26_AsStated ==
    dept = "peds" =>
        \A i \in Returned : \A c \in DayOffWeeks(i) : \A ind \in Indicators(i, c) :
            \A day \in c.days :
                /\ ind[day] <=> DayOff(i, c.name[1], day.date)
                /\ ind[day] => c.name[1] \notin OnCall(i, day.date)

\* C26: in pediatrics a true day-off indicator means that the provider has
\* no clinic session and no call session on the date, and on a date with a
\* clinic session the indicator is true whenever the provider has neither;
\* on a date with a call session only, the indicator may be false although
\* the provider is not on call.
C26_DayOffIndicator ==
    dept = "peds" =>
        \A i \in Returned : \A c \in DayOffWeeks(i) : \A ind \in Indicators(i, c) :
            \A day \in c.days :
                /\ ind[day] => DayOff(i, c.name[1], day.date)
                /\ ind[day] => c.name[1] \notin OnCall(i, day.date)
                /\ (HasClinicSession(day.date) /\ DayOff(i, c.name[1], day.date)) => ind[day]

\* a pediatric solution over a Monday with call only, a Tuesday and a
\* Wednesday in which a provider's chosen day off is a clinic day on which
\* the other provider works, and the provider's indicator of the Monday is
\* false although the provider is not on call on the Monday
C26_Witness ==
    /\ Solved
    /\ dept = "peds"
    /\ "Monday" \notin config.clinic_rules.clinic_days
    /\ \E i \in Returned : \E c \in DayOffWeeks(i) : \E ind \in Indicators(i, c) :
          \E mon, off \in c.days :
             /\ mon.date = 0 /\ off.date > 0
             /\ ind[off] /\ DayOff(i, c.name[1], off.date)
             /\ HasClinicSession(off.date)
             /\ ~ind[mon] /\ DayOff(i, c.name[1], 0)

\* ------------------------------------------------------------------------
\* The assemblers of one attempt applied in another order or a second time,
\* on the attempt's fabric and inputs.
Assemblers(d) == SeqToSet(Pipeline(d)) \ {"solve"}

Apply(label, m) ==
    CASE label = "leave" -> add_leave_constraints(m, shift_vars, leave_df)
      [] label = "inpatient" ->
            IF dept = "peds"
            THEN PEDS_add_inpatient_block_constraints(m, shift_vars, inpatient_starts_df,
                                                      inpatient_days_df)
            ELSE IM_add_inpatient_block_constraints(m, shift_vars, inpatient_starts_df,
                                                    inpatient_days_df)
      [] label = "call" ->
            PEDS_add_call_constraints(m, shift_vars, leave_df, inpatient_starts_df,
                                      current_config[1].clinic_rules,
                                      current_config[1].providers).model
      [] label = "monthly_call" ->
            add_monthly_call_limits(m, shift_vars, calendar, current_config[1].providers)
      [] label = "post_call" -> add_post_call_afternoon_constraints(m, shift_vars, calendar)
      [] label = "pediatric_call" ->
            add_pediatric_call_constraints(m, shift_vars, peds_schedule_df)
      [] label = "friday_only" ->
            add_friday_only_constraints(m, shift_vars, calendar, current_config[1].providers)
      [] label = "clinic_count" ->
            (CASE dept = "im" ->
                    IM_add_clinic_count_constraints(m, shift_vars, current_config[1].providers,
                                                    inpatient_starts_df)
               [] dept = "peds" ->
                    PEDS_add_clinic_count_constraints(m, shift_vars,
                                                      current_config[1].providers,
                                                      inpatient_starts_df)
               [] dept = "fp" ->
                    FP_add_clinic_count_constraints(m, shift_vars, current_config[1].providers,
                                                    inpatient_starts_df, peds_schedule_df)).model
      [] label = "fracture" ->
            add_fracture_clinic_constraints(m, shift_vars, calendar,
                                            current_config[1].providers).model
      [] label = "rdo" ->
            (CASE dept = "im" ->
                    IM_add_rdo_constraints(m, shift_vars, leave_df, inpatient_days_df,
                                           current_config[1].clinic_rules,
                                           current_config[1].providers)
               [] dept = "peds" ->
                    PEDS_add_rdo_constraints(m, shift_vars, leave_df, inpatient_days_df,
                                             current_config[1].clinic_rules,
                                             current_config[1].providers).model
               [] dept = "fp" ->
                    FP_add_rdo_constraints(m, shift_vars, leave_df, inpatient_days_df,
                                           current_config[1].clinic_rules,
                                           current_config[1].providers,
                                           peds_schedule_df).model)
      [] label = "staffing" ->
            IF dept = "peds"
            THEN PEDS_add_min_max_staffing_constraints(m, shift_vars, calendar,
                                                       current_config[1].clinic_rules)
            ELSE IM_add_min_max_staffing_constraints(m, shift_vars, calendar,
                                                     current_config[1].clinic_rules)

\* the model right after create_shift_variables
Fabric == [model EXCEPT !.constraints = {}]

\* the models that k distinct assemblers, applied in any order, build on the
\* fabric
RECURSIVE InAnyOrder(_)
InAnyOrder(k) ==
    IF k = 0
    THEN {[applied |-> {}, model |-> Fabric]}
    ELSE LET prev == InAnyOrder(k - 1)
         IN {[applied |-> x[1].applied \cup {x[2]}, model |-> Apply(x[2], x[1].model)]
                : x \in {y \in prev \X Assemblers(dept) : y[2] \notin y[1].applied}}

Reordered == {r.model : r \in InAnyOrder(Cardinality(Assemblers(dept)))}

C28_AsStated == (dept = "peds" /\ Done) => Len(result[1]) = 4

\* the number of solver calls a run may make
AttemptBound == IF min_staffing_search
                THEN (IF initial_min_providers < 0 THEN 0 ELSE initial_min_providers + 1)
                ELSE 1

\* a run that ended without returning: an exception left the driver after
\* the calendar was built and the search was set up
EndedByException == pc = "raised" /\ original_config # None

\* C29 as stated: every run whose search starts ends in Solved or Exhausted
\* (no exception leaves the driver), after at most
\* initial_min_providers+1 attempts in search mode and exactly one attempt
\* in direct mode; with a negative initial_min_providers in search mode no
\* attempt is made and the run ends Exhausted with an empty list of
\* thresholds tried and total solve time 0.
C29_AsStated ==
    /\ ~EndedByException
    /\ Len(attempts) <= AttemptBound
    /\ (Done /\ ~min_staffing_search) => Len(attempts) = 1
    /\ (Done /\ min_staffing_search /\ initial_min_providers < 0) =>
          /\ attempts = <<>>
          /\ Exhausted
          /\ ReturnedStatus.min_providers_tried = <<>>
          /\ ReturnedStatus.total_solve_time = 0

\* the Monday of the Monday-Sunday week of a date
MondayOf(d) == d - Weekday(d)

\* the weekly clinic groups add_clinic_count_constraints built for provider p
\* that hold a session of the Monday-Sunday week starting on day w
ClinicGroupsOfWeek(p, w) ==
    {t \in objective_terms :
        /\ t.kind = "soft_min"
        /\ t.name[1] = p
        /\ \E d \in DOMAIN shift_vars[p] :
              MondayOf(d) = w /\ ClinicVars(shift_vars, p, d) \cap t.vars # {}}

\* C30 as stated: in internal medicine and family practice two scheduled
\* dates have the same week key (date.year, ISO week number) if and only if
\* they lie in the same Monday-Sunday week, also in a week that spans a year
\* boundary; so the weekly clinic maximum is applied once per provider and
\* calendar week.
C30_AsStated ==
    dept \in {"im", "fp"} =>
        /\ \A d1, d2 \in CalKeys(calendar) :
              get_week_key(d1) = get_week_key(d2) <=> MondayOf(d1) = MondayOf(d2)
        /\ ReadyToSolve =>
              \A p \in DOMAIN shift_vars : \A w \in {MondayOf(d) : d \in CalKeys(calendar)} :
                  Cardinality(ClinicGroupsOfWeek(p, w)) <= 1

====
